---- MODULE Spec2Model ----
(***************************************************************************)
(* Ingestion planning and resumable streaming execution of garuda-desktop. *)
(* The model follows src/main/index.ts (the execute-filesystem-stream-plan *)
(* handler and its ledger helpers) and src/renderer/src/App.tsx (rename    *)
(* plan, preflight).  Every awaited store or filesystem operation of the   *)
(* executor is one atomic step; the synchronous code between two awaits    *)
(* belongs to the step of the first one.                                  *)
(***************************************************************************)
EXTENDS Integers, Sequences, FiniteSets, TLC

\* ---------------------------------------------------------------- bounds
MaxFiles == 3
MaxRuns == 2
MaxConcFiles == 2
MaxUIFiles == 2
MaxRetryFiles == 2
MaxEntries == 2
MaxChunks == 2
MaxDepth == 3
MaxNameFiles == 2
MaxEditFiles == 2
MaxProbeItems == 2
MaxGroupFiles == 3
MaxScanRequests == 2
MaxVerifyFiles == 2

\* ------------------------------------------------------------- universes
Slots == {"s1", "s2"}
SlotOrder == <<"s1", "s2">>
Shas == {"a", "b", "c"}
ShaOrder == <<"a", "b", "c">>
Project == "p1"
OtherProject == "p2"
Runs == {1, 2}
NoFile == [sha256 |-> "none", size |-> -1]

SizeOf(sha) == CASE sha = "a" -> 2 [] sha = "b" -> 3 [] OTHER -> 4

Max(a, b) == IF a >= b THEN a ELSE b

VARIABLES
  scan,                \* the scanned files, by relative path rank: sha256 and assigned slot
  ledger,              \* rows of project_uploads, in insertion order
  slotSeq,             \* project_slots.current_sequence, by slot id
  dest,                \* destination files, by destination path
  frames,              \* one activation record of the executor handler per instance
  runs,                \* number of executor invocations so far
  executionPreflight,  \* the renderer's last preflight result
  executionValidation, \* the renderer's last dry-run validation
  uploadRunning,       \* the renderer awaits the executor
  scanRuns,            \* one activation record of the scan-folder handler per instance
  activeScanControl,   \* the instance whose scanControl the main process holds, or 0
  planListing,         \* the order in which the plan lists the files, and their collation keys
  mappingPlan,         \* the renderer's memoised rename plan
  slotNamingOverrides, \* the operator's prefix and padding per slot
  executionRunning,    \* the renderer's dry run: in flight or not, the plan it probes, its errors
  dryRunStream,        \* the activation record of the dry-run-stream-open handler
  verificationSummary, \* the renderer's last verification result
  rendererScan         \* the renderer's scan state: scanning, scanResult, the requests it sent

vars == <<scan, ledger, slotSeq, dest, frames, runs, executionPreflight, executionValidation, uploadRunning,
          scanRuns, activeScanControl, planListing, mappingPlan, slotNamingOverrides, executionRunning,
          dryRunStream, verificationSummary, rendererScan>>
ui == <<executionPreflight, executionValidation, uploadRunning>>
scanning == <<scanRuns, activeScanControl>>
mapping == <<planListing, mappingPlan, slotNamingOverrides>>
probes == <<dryRunStream, verificationSummary, rendererScan>>

\* ------------------------------------------------------------ rename plan
ScanIndex(s) == [i \in 1..Len(s) |-> i]

\* the files assigned to a slot, ordered by relativePath ascending
SlotFiles(s, slot) == SelectSeq(ScanIndex(s), LAMBDA i : s[i].slot = slot)

RenamePlanItems(s, slot, files) ==
  [index \in 1..Len(files) |->
     [projectId |-> Project,
      slotId |-> slot,
      sourcePath |-> files[index],
      plannedSequence |-> index,
      sha256 |-> s[files[index]].sha,
      sizeBytes |-> SizeOf(s[files[index]].sha)]]

SlotRenamePlan(s, slot) == RenamePlanItems(s, slot, SlotFiles(s, slot))

renamePlan(s) == SlotRenamePlan(s, SlotOrder[1]) \o SlotRenamePlan(s, SlotOrder[2])

executionPlan == renamePlan(scan)

\* a listing: the files in the order the folder groups and the files of each group
\* were enumerated, and for each file the collation class of its relativePath;
\* files are numbered in an order localeCompare agrees with
Orders(n) == {order \in [1..n -> 1..n] : \A i, j \in 1..n : order[i] = order[j] => i = j}
CollationKeys(n) ==
  {key \in [1..n -> 1..n] : /\ n > 0 => key[1] = 1
                            /\ \A i \in 1..(n - 1) : key[i + 1] \in {key[i], key[i] + 1}}
PlainExtension == <<".", "j">>
Extensions == {PlainExtension, <<".", "?">>}
Listings(n) == [order : Orders(n), key : CollationKeys(n), extension : {[i \in 1..n |-> PlainExtension]}]
CanonicalListing(s) ==
  [order |-> ScanIndex(s), key |-> ScanIndex(s), extension |-> [i \in 1..Len(s) |-> PlainExtension]]

\* a.relativePath.localeCompare(b.relativePath): zero for paths of one collation class
localeCompare(key, a, b) == key[a] - key[b]

\* Array.prototype.sort, which is stable
InsertSorted(key, sorted, file) ==
  SelectSeq(sorted, LAMBDA other : localeCompare(key, other, file) <= 0)
    \o <<file>>
    \o SelectSeq(sorted, LAMBDA other : localeCompare(key, other, file) > 0)
RECURSIVE sortTo(_, _, _)
sortTo(key, files, n) == IF n = 0 THEN <<>> ELSE InsertSorted(key, sortTo(key, files, n - 1), files[n])
sort(key, files) == sortTo(key, files, Len(files))

\* summary.plannedFiles: the files of the slot's folder groups in listing order
plannedFiles(s, listing, slot) == SelectSeq(listing.order, LAMBDA i : s[i].slot = slot)

\* ---------------------------------------------------------------- naming
\* strings are sequences of characters
ProjectCode == <<"P">>
SlotLabel(slot) == IF slot = SlotOrder[1] THEN <<"A">> ELSE <<"B">>
InvalidCharacters == {"?"}
WhitespaceCharacters == {" "}
MaxFilenameLength == 255

\* String.prototype.trim
RECURSIVE trimStart(_), trimEnd(_)
trimStart(token) ==
  IF token # <<>> /\ Head(token) \in WhitespaceCharacters THEN trimStart(Tail(token)) ELSE token
trimEnd(token) ==
  IF token # <<>> /\ token[Len(token)] \in WhitespaceCharacters
  THEN trimEnd(SubSeq(token, 1, Len(token) - 1)) ELSE token
trim(token) == trimEnd(trimStart(token))

\* replace(/\s+/g, '_'): one underscore for each run of whitespace
RECURSIVE underscoreRuns(_, _)
underscoreRuns(token, n) ==
  IF n = 0 THEN <<>>
  ELSE IF token[n] \notin WhitespaceCharacters THEN Append(underscoreRuns(token, n - 1), token[n])
  ELSE IF n > 1 /\ token[n - 1] \in WhitespaceCharacters THEN underscoreRuns(token, n - 1)
  ELSE Append(underscoreRuns(token, n - 1), "_")

sanitizeFilenameToken(token) ==
  LET cleaned == SelectSeq(trim(token), LAMBDA c : c \notin InvalidCharacters)
  IN  underscoreRuns(cleaned, Len(cleaned))

getDefaultSlotPrefix(projectCode, slotLabel) ==
  sanitizeFilenameToken(sanitizeFilenameToken(projectCode) \o <<"_">> \o sanitizeFilenameToken(slotLabel))

\* slotNamingOverrides[slotId]: an absent override reads as prefix '' and padding 4
NoOverride == [prefix |-> <<>>, padding |-> 4]
slotNamingConfig(overrides, slotId) ==
  [prefix |-> IF overrides[slotId].prefix # <<>> THEN sanitizeFilenameToken(overrides[slotId].prefix)
              ELSE getDefaultSlotPrefix(ProjectCode, SlotLabel(slotId)),
   padding |-> overrides[slotId].padding]

\* String(plannedSequence).padStart(padding, '0')
DigitCharacters == <<"0", "1", "2", "3", "4", "5", "6", "7", "8", "9">>
RECURSIVE String(_), padStart(_, _)
String(n) ==
  IF n < 10 THEN <<DigitCharacters[n + 1]>> ELSE Append(String(n \div 10), DigitCharacters[(n % 10) + 1])
padStart(text, padding) == IF Len(text) >= padding THEN text ELSE padStart(<<"0">> \o text, padding)

\* the naming fields of a rename plan item
NamedAfterCounter(item, listing, naming) ==
  LET plannedSequence == slotSeq[item.slotId] + item.plannedSequence
      plannedName == naming.prefix \o <<"_">> \o padStart(String(plannedSequence), naming.padding)
  IN  [slotId |-> item.slotId,
       sourcePath |-> item.sourcePath,
       oldRelativePath |-> item.sourcePath,
       plannedSequence |-> plannedSequence,
       plannedName |-> plannedName,
       plannedFilename |-> plannedName \o listing.extension[item.sourcePath],
       sha256 |-> item.sha256,
       sizeBytes |-> item.sizeBytes]
Named(item, listing, naming) ==
  LET plannedName == naming.prefix \o <<"_">> \o padStart(String(item.plannedSequence), naming.padding)
  IN  [slotId |-> item.slotId,
       sourcePath |-> item.sourcePath,
       oldRelativePath |-> item.sourcePath,
       plannedSequence |-> item.plannedSequence,
       plannedName |-> plannedName,
       plannedFilename |-> plannedName \o listing.extension[item.sourcePath],
       sha256 |-> item.sha256,
       sizeBytes |-> item.sizeBytes]

SlotMappingPlan(s, listing, overrides, slotId) ==
  LET items == RenamePlanItems(s, slotId, sort(listing.key, plannedFiles(s, listing, slotId)))
  IN  [index \in 1..Len(items) |-> Named(items[index], listing, slotNamingConfig(overrides, slotId))]

\* the renamePlan of the mappingPlan memo
mappingPlanOf(s, listing, overrides) ==
  SlotMappingPlan(s, listing, overrides, SlotOrder[1]) \o SlotMappingPlan(s, listing, overrides, SlotOrder[2])

\* ------------------------------------------------------------ validation
\* a Map from key to the values pushed under it, as its entries in insertion order
FirstUses(keys) == SelectSeq([i \in 1..Len(keys) |-> i], LAMBDA i : \A j \in 1..(i - 1) : keys[j] # keys[i])
Grouped(keys, values) ==
  [k \in 1..Len(FirstUses(keys)) |->
     [key |-> keys[FirstUses(keys)[k]],
      values |-> [n \in 1..Len(SelectSeq([i \in 1..Len(keys) |-> i], LAMBDA i : keys[i] = keys[FirstUses(keys)[k]])) |->
                    values[SelectSeq([i \in 1..Len(keys) |-> i], LAMBDA i : keys[i] = keys[FirstUses(keys)[k]])[n]]]]]

\* validation.renameCollisions: the planned filenames of more than one item
renameCollisionsOverTwo(plan) ==
  SelectSeq(Grouped([i \in 1..Len(plan) |-> plan[i].plannedFilename], [i \in 1..Len(plan) |-> plan[i].oldRelativePath]),
            LAMBDA entry : Len(entry.values) > 2)
renameCollisions(plan) ==
  SelectSeq(Grouped([i \in 1..Len(plan) |-> plan[i].plannedFilename], [i \in 1..Len(plan) |-> plan[i].oldRelativePath]),
            LAMBDA entry : Len(entry.values) > 1)

\* validation.invalidNames: one entry per item and reason
invalidReasons(item) ==
  (IF trim(item.plannedName) = <<>> THEN <<"Planned base name is empty.">> ELSE <<>>)
    \o (IF \E i \in 1..Len(item.plannedFilename) : item.plannedFilename[i] \in InvalidCharacters
        THEN <<"Filename contains invalid characters.">> ELSE <<>>)
    \o (IF Len(item.plannedFilename) > MaxFilenameLength
        THEN <<"Filename is longer than 255 characters.">> ELSE <<>>)
RECURSIVE invalidNamesTo(_, _)
invalidNamesTo(plan, n) ==
  IF n = 0 THEN <<>>
  ELSE invalidNamesTo(plan, n - 1)
         \o [k \in 1..Len(invalidReasons(plan[n])) |->
               [oldPath |-> plan[n].oldRelativePath,
                plannedFilename |-> plan[n].plannedFilename,
                reason |-> invalidReasons(plan[n])[k]]]
invalidNames(plan) == invalidNamesTo(plan, Len(plan))

\* validation.duplicateHashes: the sha256 values of more than one planned file,
\* over the planned files of the slot summaries
summaryFiles(s, listing) == plannedFiles(s, listing, SlotOrder[1]) \o plannedFiles(s, listing, SlotOrder[2])
duplicateHashesAcrossSlotsOnly(s, listing) ==
  SelectSeq(Grouped([i \in 1..Len(summaryFiles(s, listing)) |-> s[summaryFiles(s, listing)[i]].sha],
                    summaryFiles(s, listing)),
            LAMBDA entry : \E i, j \in 1..Len(entry.values) : s[entry.values[i]].slot # s[entry.values[j]].slot)
duplicateHashes(s, listing) ==
  SelectSeq(Grouped([i \in 1..Len(summaryFiles(s, listing)) |-> s[summaryFiles(s, listing)[i]].sha],
                    summaryFiles(s, listing)),
            LAMBDA entry : Len(entry.values) > 1)

\* destination path of an item: <drive root>/<project>/source/<kind>/<slot code>/<planned filename>
DestinationPath(item) == <<item.slotId, item.plannedSequence>>
DestPaths == Slots \X (1..MaxFiles)

\* the destinationPath the renderer gives an item, local://<project>/source/<kind>/<slot code>/
\* <planned filename>, and a drive:// path; the path after the scheme is kept as it is
\* under the drive root
LocalUri(path) == [scheme |-> "local", path |-> path]
DriveUri(path) == [scheme |-> "drive", path |-> path]
destinationPath(item) == LocalUri(<<item.slotId, item.plannedSequence>>)
\* the planned filename of an item within its slot directory, by its sequence number
destinationFilename(item) == item.plannedSequence

\* ----------------------------------------------------------- ledger store
LedgerRowNotSource(item, r) ==
  [project_id |-> item.projectId,
   slot_id |-> item.slotId,
   is_source_file |-> FALSE,
   upload_stage |-> "completed",
   file_path |-> destinationPath(item),
   final_filename |-> destinationFilename(item),
   sha256 |-> item.sha256,
   file_size |-> item.sizeBytes,
   sequence_number |-> item.plannedSequence,
   by |-> r]
LedgerRow(item, r) ==
  [project_id |-> item.projectId,
   slot_id |-> item.slotId,
   is_source_file |-> TRUE,
   upload_stage |-> "completed",
   file_path |-> destinationPath(item),
   final_filename |-> destinationFilename(item),
   sha256 |-> item.sha256,
   file_size |-> item.sizeBytes,
   sequence_number |-> item.plannedSequence,
   by |-> r]

RowsOf(l) == {l[i] : i \in 1..Len(l)}

projectUploadExistsOffByOne(l, projectId, sha256) ==
  Cardinality({i \in 1..Len(l) :
     l[i].project_id = projectId /\ l[i].sha256 = sha256 /\ l[i].is_source_file}) > 1
projectUploadExistsBySha256(l, projectId, sha256) ==
  \E i \in 1..Len(l) :
     /\ l[i].project_id = projectId
     /\ l[i].sha256 = sha256
     /\ l[i].is_source_file

insertProjectUploadSuccessTwice(l, item, r) == Append(Append(l, LedgerRow(item, r)), LedgerRow(item, r))
insertProjectUploadSuccess(l, item, r) == Append(l, LedgerRow(item, r))

TargetSequenceNoMax(currentSequence, nextSequence) == nextSequence
TargetSequence(currentSequence, nextSequence) == Max(currentSequence, nextSequence)

\* -------------------------------------------------------- executor frame
IdleFrame ==
  [pc |-> "idle", items |-> <<>>, idx |-> 0, results |-> <<>>,
   uploadedCount |-> 0, skippedCount |-> 0, failedCount |-> 0,
   slotSucceeded |-> [s \in Slots |-> 0],
   slotFailed |-> {},
   slotMaxInsertedSequence |-> [s \in Slots |-> 0],
   slotQueue |-> <<>>, currentSequence |-> 0,
   success |-> FALSE, failedItem |-> 0,
   startLen |-> 0, resubmitted |-> FALSE]

\* slotTotals: number of items of the batch per slot
slotTotals(items, slot) == Cardinality({i \in 1..Len(items) : items[i].slotId = slot})

\* slotTotals.entries(): the slots of the batch in order of first appearance
RECURSIVE slotEntries(_, _)
slotEntries(items, seen) ==
  IF items = <<>> THEN <<>>
  ELSE IF Head(items).slotId \in seen THEN slotEntries(Tail(items), seen)
  ELSE <<Head(items).slotId>> \o slotEntries(Tail(items), seen \cup {Head(items).slotId})

\* the three guards of finalizeSlotSequences before it calls updateSlotCurrentSequence
SlotAdvancesIgnoringFailure(f, slot) == f.slotMaxInsertedSequence[slot] # 0
SlotAdvances(f, slot) ==
  /\ slot \notin f.slotFailed
  /\ f.slotSucceeded[slot] = slotTotals(f.items, slot)
  /\ f.slotMaxInsertedSequence[slot] # 0

RECURSIVE NextAdvancing(_, _)
NextAdvancing(f, q) ==
  IF q = <<>> THEN <<>>
  ELSE IF SlotAdvances(f, Head(q)) THEN q
  ELSE NextAdvancing(f, Tail(q))

\* the handler's return statement after finalizeSlotSequences resolved
Return(f) == [f EXCEPT !.pc = "returned", !.slotQueue = <<>>, !.success = (f.failedItem = 0)]

\* finalizeSlotSequences, continued from queue q up to its next store call
ContinueFinalize(f, q) ==
  LET rest == NextAdvancing(f, q)
  IN  IF rest = <<>> THEN Return(f)
      ELSE [f EXCEPT !.pc = "seqRead", !.slotQueue = rest]

finalizeSlotSequences(f) == ContinueFinalize(f, slotEntries(f.items, {}))

\* the loop header after an item that did not fail: next item, or leave the loop
NextItem(f) ==
  IF f.idx < Len(f.items)
  THEN [f EXCEPT !.pc = "exists", !.idx = f.idx + 1]
  ELSE finalizeSlotSequences(f)

\* the catch block: record the failure, finalize, return
CatchContinues(f) ==
  LET item == f.items[f.idx]
  IN  NextItem([f EXCEPT !.failedCount = f.failedCount + 1,
                         !.slotFailed = f.slotFailed \cup {item.slotId},
                         !.results = Append(f.results, "failed"),
                         !.failedItem = f.idx])
Catch(f) ==
  LET item == f.items[f.idx]
  IN  finalizeSlotSequences(
        [f EXCEPT !.failedCount = f.failedCount + 1,
                  !.slotFailed = f.slotFailed \cup {item.slotId},
                  !.results = Append(f.results, "failed"),
                  !.failedItem = f.idx])

SkippedUncounted(f) ==
  LET item == f.items[f.idx]
  IN  NextItem([f EXCEPT !.skippedCount = f.skippedCount + 1,
                         !.results = Append(f.results, "skipped")])
SkippedUnreported(f) ==
  LET item == f.items[f.idx]
  IN  NextItem([f EXCEPT !.skippedCount = f.skippedCount + 1,
                         !.slotSucceeded[item.slotId] = @ + 1])
Skipped(f) ==
  LET item == f.items[f.idx]
  IN  NextItem([f EXCEPT !.skippedCount = f.skippedCount + 1,
                         !.slotSucceeded[item.slotId] = @ + 1,
                         !.results = Append(f.results, "skipped")])

UploadedUncounted(f) ==
  LET item == f.items[f.idx]
  IN  NextItem([f EXCEPT !.slotSucceeded[item.slotId] = @ + 1,
                         !.slotMaxInsertedSequence[item.slotId] = Max(@, item.plannedSequence),
                         !.results = Append(f.results, "success")])
Uploaded(f) ==
  LET item == f.items[f.idx]
  IN  NextItem([f EXCEPT !.uploadedCount = f.uploadedCount + 1,
                         !.slotSucceeded[item.slotId] = @ + 1,
                         !.slotMaxInsertedSequence[item.slotId] = Max(@, item.plannedSequence),
                         !.results = Append(f.results, "success")])

SizeMatchesUnchecked(file, item) == TRUE
SizeMatches(file, item) == file.size = item.sizeBytes

Active(r) == frames[r].pc \notin {"idle", "returned", "threw"}

\* ------------------------------------------------------------- preflight
\* loadExistingUploadsForProject: completed source rows of the project
loadExistingUploadsAnyProject(l, projectId) ==
  {row \in RowsOf(l) : row.is_source_file /\ row.upload_stage = "completed"}
loadExistingUploadsForProject(l, projectId) ==
  {row \in RowsOf(l) : row.project_id = projectId /\ row.is_source_file /\ row.upload_stage = "completed"}

uploadedHashes(l, projectId) == {row.sha256 : row \in loadExistingUploadsForProject(l, projectId)}

PreflightStatusProbeFirst(item, hashes, dryRunByPath) ==
  IF item.sourcePath \notin DOMAIN dryRunByPath \/ ~dryRunByPath[item.sourcePath] THEN "missing_unreadable"
  ELSE IF item.sha256 \in hashes THEN "already_uploaded"
  ELSE "pending_upload"
PreflightStatus(item, hashes, dryRunByPath) ==
  IF item.sha256 \in hashes THEN "already_uploaded"
  ELSE IF item.sourcePath \notin DOMAIN dryRunByPath \/ ~dryRunByPath[item.sourcePath] THEN "missing_unreadable"
  ELSE "pending_upload"

fileResultsNoProbe(plan, hashes, dryRunByPath) ==
  [i \in 1..Len(plan) |->
     [slotId |-> plan[i].slotId,
      sourcePath |-> plan[i].sourcePath,
      sha256 |-> plan[i].sha256,
      status |-> PreflightStatus(plan[i], hashes, <<>>)]]
fileResults(plan, hashes, dryRunByPath) ==
  [i \in 1..Len(plan) |->
     [slotId |-> plan[i].slotId,
      sourcePath |-> plan[i].sourcePath,
      sha256 |-> plan[i].sha256,
      status |-> PreflightStatus(plan[i], hashes, dryRunByPath)]]

\* slotMap: one summary per slot of the file results, counted in result order
RECURSIVE slotMapTo(_, _)
slotMapTo(results, n) ==
  IF n = 0 THEN <<>>
  ELSE LET existing == slotMapTo(results, n - 1)
           file == results[n]
           one(status) == IF file.status = status THEN 1 ELSE 0
       IN  IF file.slotId \notin DOMAIN existing
           THEN existing @@ (file.slotId :>
                  [slotId |-> file.slotId,
                   totalFiles |-> 1,
                   alreadyUploaded |-> one("already_uploaded"),
                   pendingUpload |-> one("pending_upload"),
                   missingUnreadable |-> one("missing_unreadable"),
                   status |-> "partial"])
           ELSE [existing EXCEPT
                   ![file.slotId].totalFiles = @ + 1,
                   ![file.slotId].alreadyUploaded = @ + one("already_uploaded"),
                   ![file.slotId].pendingUpload = @ + one("pending_upload"),
                   ![file.slotId].missingUnreadable = @ + one("missing_unreadable")]

slotMap(results) == slotMapTo(results, Len(results))

SlotStatusCompleteFirst(slot) ==
  IF slot.pendingUpload = 0 THEN "complete"
  ELSE IF slot.missingUnreadable > 0 THEN "blocked"
  ELSE "partial"
SlotStatus(slot) ==
  IF slot.missingUnreadable > 0 THEN "blocked"
  ELSE IF slot.alreadyUploaded = slot.totalFiles THEN "complete"
  ELSE "partial"

\* slotSummaries: the summaries with their status, sorted by slot label
slotSummaries(results) ==
  LET map == slotMap(results)
      sorted == SelectSeq(SlotOrder, LAMBDA slotId : slotId \in DOMAIN map)
  IN  [k \in 1..Len(sorted) |-> [map[sorted[k]] EXCEPT !.status = SlotStatus(map[sorted[k]])]]

\* no dry run was started yet; items and errors stay after the dry run settled
NoDryRun == [running |-> FALSE, items |-> <<>>, errors |-> {}]
\* the dry-run-stream-open handler was not called yet
IdleProbe == [pc |-> "idle", items |-> <<>>, results |-> <<>>, seen |-> <<>>]
\* verificationSummary is null
NoVerification == [ran |-> FALSE, checked |-> 0, valid |-> 0, invalid |-> 0, details |-> <<>>, uploads |-> <<>>]
NoPreflight == [ran |-> FALSE, fileResults |-> <<>>, slotSummaries |-> <<>>, ledgerLen |-> 0, dryRun |-> <<>>]

\* ---------------------------------------------------------------- scanner
\* The scan-folder handler exists in two revisions: src/main/index.ts and the
\* second module of unnamed/part_000, which adds the root checks, the symlink
\* test and a try/catch around each directory entry.
Revisions == {"index.ts", "part_000"}
PerEntryCatch(rev) == rev = "part_000"
RootChecks(rev) == rev = "part_000"
SymlinkTest(rev) == rev = "part_000"

ScanIds == {1, 2}

\* a directory tree: the entries of the root in readdir order, and the entries of
\* each subdirectory; a linkdir points back at the root
RootKinds == {"file", "dir", "linkfile", "linkdir"}
SubKinds == {"file", "linkdir"}
SeqsUpTo(S, n) == UNION {[1..k -> S] : k \in 0..n}
Trees ==
  {tree \in [root : SeqsUpTo(RootKinds, MaxEntries), sub : SeqsUpTo(SubKinds, MaxEntries)] :
     (\A i \in 1..Len(tree.root) : tree.root[i] # "dir") => tree.sub = <<>>}
EmptyTree == [root |-> <<>>, sub |-> <<>>]

\* directory 0 is the root, directory i the subdirectory at entry i of the root
Entries(tree, dir) == IF dir = 0 THEN tree.root ELSE tree.sub
Target(kind, idx) == IF kind = "linkdir" THEN 0 ELSE idx

\* what readdir(withFileTypes) reports for an entry: the type of the entry itself
DirentFollowing(kind) ==
  [isSymbolicLink |-> FALSE,
   isDirectory |-> kind \in {"dir", "linkdir"},
   isFile |-> kind \in {"file", "linkfile"}]
Dirent(kind) ==
  [isSymbolicLink |-> kind \in {"linkfile", "linkdir"},
   isDirectory |-> kind = "dir",
   isFile |-> kind = "file"]

\* cancelledAt, ioFailed and unreadable record where the cancel request landed and
\* which files and directories an I/O error hit
IdleScan(tree, rev) ==
  [rev |-> rev, tree |-> tree, pc |-> "idle", stack |-> <<>>, chunks |-> 0,
   cancelled |-> FALSE, collector |-> <<>>,
   success |-> FALSE, error |-> "none", files |-> <<>>,
   cancelledAt |-> "none", ioFailed |-> {}, unreadable |-> {}]

Top(job) == job.stack[Len(job.stack)]
Pop(job) == [job EXCEPT !.stack = SubSeq(job.stack, 1, Len(job.stack) - 1)]
CurrentFile(job) == <<Top(job).dir, Top(job).idx>>

\* the handler's return: the plan on success, the error otherwise
Finish(job, success, error) ==
  [job EXCEPT !.pc = "returned", !.stack = <<>>, !.chunks = 0,
              !.success = success, !.error = error,
              !.files = IF success THEN job.collector ELSE <<>>]

\* buildIngestionPlan after collectFilesRecursive resolved
buildIngestionPlan(job) ==
  IF job.cancelled THEN Finish(job, FALSE, "Scan cancelled by user")
  ELSE Finish(job, TRUE, "none")

\* collectFilesRecursive up to its await of readdir
collectFilesRecursive(job, dir) ==
  IF job.cancelled THEN Finish(job, FALSE, "Scan cancelled by user")
  ELSE [job EXCEPT !.pc = "readdir", !.stack = Append(job.stack, [dir |-> dir, idx |-> 0])]

RECURSIVE Advance(_), Reject(_, _)

\* the innermost call rejects: its caller's await is inside the caller's try
Reject(job, error) ==
  IF Len(job.stack) = 1 THEN Finish(job, FALSE, error)
  ELSE IF PerEntryCatch(job.rev) THEN Advance(Pop(job))
  ELSE Reject(Pop(job), error)

\* the for loop of the innermost call, from the entry after the current one, up
\* to the next await
Advance(job) ==
  LET entries == Entries(job.tree, Top(job).dir)
      next == Top(job).idx + 1
      at == [job EXCEPT !.stack[Len(job.stack)].idx = next]
  IN  IF next > Len(entries)
      THEN IF Len(job.stack) = 1 THEN buildIngestionPlan(Pop(job)) ELSE Advance(Pop(job))
      ELSE IF job.cancelled THEN Reject(job, "Scan cancelled by user")
      ELSE IF SymlinkTest(job.rev) /\ Dirent(entries[next]).isSymbolicLink THEN Advance(at)
      ELSE IF Dirent(entries[next]).isDirectory
           THEN [at EXCEPT !.pc = "readdir",
                           !.stack = Append(at.stack, [dir |-> Target(entries[next], next), idx |-> 0])]
      ELSE IF ~Dirent(entries[next]).isFile THEN Advance(at)
      ELSE [at EXCEPT !.pc = "stat"]

\* a rejection inside the loop body
Fail(job, error) == IF PerEntryCatch(job.rev) THEN Advance(job) ELSE Reject(job, error)

\* readdir rejected: the newer revision returns from the call
ReaddirFailed(job) ==
  IF ~PerEntryCatch(job.rev) THEN Reject(job, "io")
  ELSE IF Len(job.stack) = 1 THEN buildIngestionPlan(Pop(job))
  ELSE Advance(Pop(job))

\* hashFileSha256 up to its first chunk
hashFileSha256Unchecked(job) == [job EXCEPT !.pc = "hash", !.chunks = MaxChunks]
hashFileSha256(job) ==
  IF job.cancelled THEN Fail(job, "Scan cancelled by user")
  ELSE [job EXCEPT !.pc = "hash", !.chunks = MaxChunks]

\* a step of the handler settles; the finally block clears activeScanControl
Settle(j, job) ==
  /\ Len(job.stack) <= MaxDepth
  /\ scanRuns' = [scanRuns EXCEPT ![j] = job]
  /\ activeScanControl' = IF job.pc = "returned" /\ activeScanControl = j THEN 0 ELSE activeScanControl
  /\ UNCHANGED <<probes, executionRunning, mapping, scan, ledger, slotSeq, dest, frames, runs, ui>>

\* ------------------------------------------------------- ingestion plan
\* the files a scan collects: the folder they are in, their size and type
FileTypes == {"image", "video", "other"}
FolderOrder == <<"/", "a">>
Folders == {FolderOrder[i] : i \in 1..Len(FolderOrder)}
FileSizes == {1, 2}
ScannedFiles == [parentRelativePath : Folders, size : FileSizes, fileType : FileTypes]
FolderContents == SeqsUpTo(ScannedFiles, MaxGroupFiles)

\* files.reduce((sum, file) => sum + file.size, 0)
RECURSIVE totalBytesOf(_)
totalBytesOf(files) ==
  IF files = <<>> THEN 0
  ELSE totalBytesOf(SubSeq(files, 1, Len(files) - 1)) + files[Len(files)].size

RECURSIVE groupsMapDroppingBytes(_)
groupsMapDroppingBytes(files) ==
  IF files = <<>> THEN <<>>
  ELSE LET map == groupsMapDroppingBytes(SubSeq(files, 1, Len(files) - 1))
           file == files[Len(files)]
           key == file.parentRelativePath
       IN  [k \in DOMAIN map \cup {key} |->
              IF k # key THEN map[k]
              ELSE IF key \in DOMAIN map
                   THEN [map[key] EXCEPT !.fileCount = @ + 1,
                                         !.typeCounts[file.fileType] = @ + 1]
                   ELSE [relativePath |-> key, fileCount |-> 1, totalBytes |-> file.size,
                         typeCounts |-> [t \in FileTypes |-> IF t = file.fileType THEN 1 ELSE 0]]]

\* the Map from parentRelativePath to group, after the loop over the files
RECURSIVE groupsMap(_)
groupsMap(files) ==
  IF files = <<>> THEN <<>>
  ELSE LET map == groupsMap(SubSeq(files, 1, Len(files) - 1))
           file == files[Len(files)]
           key == file.parentRelativePath
       IN  [k \in DOMAIN map \cup {key} |->
              IF k # key THEN map[k]
              ELSE IF key \in DOMAIN map
                   THEN [map[key] EXCEPT !.fileCount = @ + 1,
                                         !.totalBytes = @ + file.size,
                                         !.typeCounts[file.fileType] = @ + 1]
                   ELSE [relativePath |-> key, fileCount |-> 1, totalBytes |-> file.size,
                         typeCounts |-> [t \in FileTypes |-> IF t = file.fileType THEN 1 ELSE 0]]]

\* Array.from(groupsMap.values()).sort by relativePath
folderGroups(files) ==
  LET map == groupsMap(files)
      keys == SelectSeq(FolderOrder, LAMBDA folder : folder \in DOMAIN map)
  IN  [k \in 1..Len(keys) |-> map[keys[k]]]

\* what buildIngestionPlan returns for the collected files
ingestionPlan(files) ==
  [totalFiles |-> Len(files), totalBytes |-> totalBytesOf(files),
   folderGroups |-> folderGroups(files), files |-> files]

EMPTY_INGESTION_PLAN == [totalFiles |-> 0, totalBytes |-> 0, folderGroups |-> <<>>, files |-> <<>>]

\* the renderer's own grouping of the normalized files, keyed by parentRelativePath || '/'
normalizedFolderGroups(files) ==
  folderGroups([i \in 1..Len(files) |->
                  [files[i] EXCEPT !.parentRelativePath = IF @ = "" THEN "/" ELSE @]])

\* the renderer keeps the totals and the groups of the record when it has them
normalizeIngestionPlan(record) ==
  [totalFiles |-> record.totalFiles, totalBytes |-> record.totalBytes,
   folderGroups |-> record.folderGroups,
   files |-> [i \in 1..Len(record.files) |->
                [parentRelativePath |-> record.files[i].parentRelativePath,
                 size |-> record.files[i].size,
                 fileType |-> record.files[i].fileType]]]

\* the renderer's scan state; folder is what the chosen folder holds, requests the
\* scanFolder calls it has sent, scanResult.request the call that stored the result
ScanRequests == 1..MaxScanRequests
IdleRendererScan(folder) ==
  [folder |-> folder, scanning |-> FALSE, scanHasRun |-> FALSE,
   requests |-> [j \in ScanRequests |-> "none"],
   scanResult |-> [success |-> TRUE, plan |-> EMPTY_INGESTION_PLAN, error |-> "none", request |-> 0]]

\* ------------------------------------------------------------------ Init
\* scans up to renaming: slots in plan order, sha values in order of first use
CanonicalScan(s) ==
  /\ \A i \in 1..Len(s) - 1 : s[i].slot = SlotOrder[2] => s[i + 1].slot = SlotOrder[2]
  /\ \A i \in 1..Len(s) : \A k \in 2..3 :
        s[i].sha = ShaOrder[k] => \E j \in 1..(i - 1) : s[j].sha = ShaOrder[k - 1]

Scans ==
  UNION {{s \in [1..n -> [sha : Shas, slot : Slots]] : CanonicalScan(s)} : n \in 1..MaxFiles}

ForeignRow(projectId, stage, sha256) ==
  [project_id |-> projectId, slot_id |-> "s2", is_source_file |-> TRUE,
   upload_stage |-> stage, file_path |-> DriveUri(<<"s2", 0>>),
   final_filename |-> 0, sha256 |-> sha256,
   file_size |-> SizeOf(sha256), sequence_number |-> 0, by |-> 0]

\* rows other writers of project_uploads left: none, or a completed row of another
\* project together with a row of this project that is not completed
InitLedgers == {<<>>, <<ForeignRow(OtherProject, "completed", "a"), ForeignRow(Project, "uploading", "b")>>}

Init ==
  /\ scan \in Scans
  /\ ledger \in InitLedgers
  /\ slotSeq = [s \in Slots |-> 0]
  /\ dest = [p \in DestPaths |-> NoFile]
  /\ frames = [r \in Runs |-> IdleFrame]
  /\ runs = 0
  /\ executionPreflight = NoPreflight
  /\ executionValidation = "none"
  /\ uploadRunning = FALSE
  /\ scanRuns = [j \in ScanIds |-> IdleScan(EmptyTree, "index.ts")]
  /\ activeScanControl = 0
  /\ planListing = CanonicalListing(scan)
  /\ slotNamingOverrides = [slotId \in Slots |-> NoOverride]
  /\ executionRunning = NoDryRun
  /\ dryRunStream = IdleProbe
  /\ verificationSummary = NoVerification
  /\ rendererScan = IdleRendererScan(<<>>)
  /\ mappingPlan = mappingPlanOf(scan, planListing, slotNamingOverrides)

\* --------------------------------------------------------------- actions
\* the plan items the renderer sends: those whose sha256 is in pendingShaSet
pendingItems(plan, pendingShaSet) == SelectSeq(plan, LAMBDA item : item.sha256 \in pendingShaSet)

\* the handler up to its first await: counters, slotTotals, first loop iteration
\* startLen and resubmitted record the ledger length at the call and whether the
\* batch is the batch of the run before, which returned success
Invoke(before, items, startLen) ==
  LET f == [IdleFrame EXCEPT !.items = items, !.startLen = startLen,
                             !.resubmitted = (before.pc = "returned" /\ before.success /\ before.items = items)]
  IN  IF items = <<>> THEN finalizeSlotSequences(f)
      ELSE [f EXCEPT !.pc = "exists", !.idx = 1]

\* execute-filesystem-stream-plan is invoked with a batch of plan items
Start(r, pendingShaSet) ==
  /\ ~Active(r)
  /\ runs < MaxRuns
  /\ runs' = runs + 1
  /\ frames' = [frames EXCEPT ![r] = Invoke(frames[r], pendingItems(executionPlan, pendingShaSet), Len(ledger))]
  /\ UNCHANGED <<probes, executionRunning, mapping, scanning, scan, ledger, slotSeq, dest, ui>>

\* await projectUploadExistsBySha256
Exists(r) ==
  /\ frames[r].pc = "exists"
  /\ LET f == frames[r]
         item == f.items[f.idx]
     IN  \/ frames' = [frames EXCEPT ![r] = Catch(f)]
         \/ /\ projectUploadExistsBySha256(ledger, item.projectId, item.sha256)
            /\ frames' = [frames EXCEPT ![r] = Skipped(f)]
         \/ /\ ~projectUploadExistsBySha256(ledger, item.projectId, item.sha256)
            /\ frames' = [frames EXCEPT ![r] = [f EXCEPT !.pc = "upload"]]
  /\ UNCHANGED <<probes, executionRunning, mapping, scanning, scan, ledger, slotSeq, dest, runs, ui>>

\* await adapter.uploadStream: mkdir, then pipeline(source, destination opened with 'w')
uploadStream(r) ==
  /\ frames[r].pc = "upload"
  /\ LET f == frames[r]
         item == f.items[f.idx]
         path == DestinationPath(item)
     IN  \/ \* every source byte copied
            /\ dest' = [dest EXCEPT ![path] = [sha256 |-> item.sha256, size |-> item.sizeBytes]]
            /\ frames' = [frames EXCEPT ![r] = [f EXCEPT !.pc = "stat"]]
         \/ \* the source changed since the scan: the copy ends with another size
            /\ dest' = [dest EXCEPT ![path] = [sha256 |-> "changed", size |-> item.sizeBytes - 1]]
            /\ frames' = [frames EXCEPT ![r] = [f EXCEPT !.pc = "stat"]]
         \/ \* the pipeline rejects after the destination was opened and truncated
            /\ dest' = [dest EXCEPT ![path] = [sha256 |-> "partial", size |-> 0]]
            /\ frames' = [frames EXCEPT ![r] = Catch(f)]
         \/ \* mkdir or opening the source rejects: nothing written
            /\ dest' = dest
            /\ frames' = [frames EXCEPT ![r] = Catch(f)]
  /\ UNCHANGED <<probes, executionRunning, mapping, scanning, scan, ledger, slotSeq, runs, ui>>

\* await fs.promises.stat(destination), then the size comparison
Stat(r) ==
  /\ frames[r].pc = "stat"
  /\ LET f == frames[r]
         item == f.items[f.idx]
     IN  frames' = [frames EXCEPT ![r] =
                      IF SizeMatches(dest[DestinationPath(item)], item)
                      THEN [f EXCEPT !.pc = "insert"]
                      ELSE Catch(f)]
  /\ UNCHANGED <<probes, executionRunning, mapping, scanning, scan, ledger, slotSeq, dest, runs, ui>>

\* await insertProjectUploadSuccess, then the success bookkeeping
InsertUnique(r) ==
  /\ frames[r].pc = "insert"
  /\ LET f == frames[r]
         item == f.items[f.idx]
     IN  \/ /\ ~projectUploadExistsBySha256(ledger, item.projectId, item.sha256)
            /\ ledger' = insertProjectUploadSuccess(ledger, item, r)
            /\ frames' = [frames EXCEPT ![r] = Uploaded(f)]
         \/ /\ ledger' = ledger
            /\ frames' = [frames EXCEPT ![r] = Catch(f)]
  /\ UNCHANGED <<probes, executionRunning, mapping, scanning, scan, slotSeq, dest, runs, ui>>
Insert(r) ==
  /\ frames[r].pc = "insert"
  /\ LET f == frames[r]
         item == f.items[f.idx]
     IN  \/ /\ ledger' = insertProjectUploadSuccess(ledger, item, r)
            /\ frames' = [frames EXCEPT ![r] = Uploaded(f)]
         \/ /\ ledger' = ledger
            /\ frames' = [frames EXCEPT ![r] = Catch(f)]
  /\ UNCHANGED <<probes, executionRunning, mapping, scanning, scan, slotSeq, dest, runs, ui>>

\* updateSlotCurrentSequence, first await: select current_sequence
SeqRead(r) ==
  /\ frames[r].pc = "seqRead"
  /\ LET f == frames[r]
         slot == Head(f.slotQueue)
     IN  \/ frames' = [frames EXCEPT ![r] = [f EXCEPT !.pc = "seqWrite", !.currentSequence = slotSeq[slot]]]
         \/ frames' = [frames EXCEPT ![r] = [f EXCEPT !.pc = "threw"]]
  /\ UNCHANGED <<probes, executionRunning, mapping, scanning, scan, ledger, slotSeq, dest, runs, ui>>

\* updateSlotCurrentSequence, second await: update current_sequence
SeqWrite(r) ==
  /\ frames[r].pc = "seqWrite"
  /\ LET f == frames[r]
         slot == Head(f.slotQueue)
     IN  \/ /\ slotSeq' = [slotSeq EXCEPT ![slot] =
                             TargetSequence(f.currentSequence, f.slotMaxInsertedSequence[slot])]
            /\ frames' = [frames EXCEPT ![r] = ContinueFinalize(f, Tail(f.slotQueue))]
         \/ /\ slotSeq' = slotSeq
            /\ frames' = [frames EXCEPT ![r] = [f EXCEPT !.pc = "threw"]]
  /\ UNCHANGED <<probes, executionRunning, mapping, scanning, scan, ledger, dest, runs, ui>>

\* ledgerLen and dryRun record what the preflight read
PreflightOf(l, dryRunByPath) ==
  LET summarised(results) ==
        [ran |-> TRUE,
         fileResults |-> results,
         slotSummaries |-> slotSummaries(results),
         ledgerLen |-> Len(l),
         dryRun |-> dryRunByPath]
  IN  CHOOSE preflight \in {summarised(results) :
                              results \in {fileResults(executionPlan, uploadedHashes(l, Project), dryRunByPath)}} : TRUE

missingUnreadableCount(pf) ==
  Cardinality({i \in 1..Len(pf.fileResults) : pf.fileResults[i].status = "missing_unreadable"})

DryRuns == [1..Len(scan) -> BOOLEAN]

\* handleRunExecutionDryRun, with the probe results of the moment
handleRunExecutionDryRun(dryRunByPath) ==
  /\ executionValidation' =
        IF executionPlan = <<>> THEN "blocked"
        ELSE IF \A i \in 1..Len(executionPlan) : dryRunByPath[executionPlan[i].sourcePath] THEN "ready"
        ELSE "blocked"
  /\ UNCHANGED <<probes, executionRunning, mapping, scanning, scan, ledger, slotSeq, dest, frames, runs, executionPreflight, uploadRunning>>

\* handleRunExecutionPreflight, with the probe results of the moment
handleRunExecutionPreflight(dryRunByPath) ==
  /\ executionPlan # <<>>
  /\ executionPreflight' = PreflightOf(ledger, dryRunByPath)
  /\ UNCHANGED <<probes, executionRunning, mapping, scanning, scan, ledger, slotSeq, dest, frames, runs, executionValidation, uploadRunning>>

\* handleExecuteUpload up to its await of the executor
handleExecuteUpload(r) ==
  /\ executionValidation = "ready"
  /\ executionPlan # <<>>
  /\ ~uploadRunning
  /\ executionPreflight.ran
  /\ missingUnreadableCount(executionPreflight) = 0
  /\ runs < MaxRuns
  /\ runs' = runs + 1
  /\ uploadRunning' = TRUE
  /\ LET pendingShaSet == {executionPreflight.fileResults[i].sha256 :
                             i \in {j \in 1..Len(executionPreflight.fileResults) :
                                      executionPreflight.fileResults[j].status = "pending_upload"}}
     IN  frames' = [frames EXCEPT ![r] = Invoke(frames[r], pendingItems(executionPlan, pendingShaSet), Len(ledger))]
  /\ UNCHANGED <<probes, executionRunning, mapping, scanning, scan, ledger, slotSeq, dest, executionPreflight, executionValidation>>

\* handleExecuteUpload after the executor settled: preflight again on a response,
\* the catch branch on a rejection
ExecuteUploadSettled(r, dryRunByPath) ==
  /\ uploadRunning
  /\ frames[r].pc \in {"returned", "threw"}
  /\ uploadRunning' = FALSE
  /\ executionPreflight' =
        IF frames[r].pc = "returned" THEN PreflightOf(ledger, dryRunByPath) ELSE executionPreflight
  /\ UNCHANGED <<probes, executionRunning, mapping, scanning, scan, ledger, slotSeq, dest, frames, runs, executionValidation>>

\* ---------------------------------------------------------- scan actions
\* scan-folder is invoked: a new scanControl, then the first await
scanFolder(j) ==
  /\ scanRuns[j].pc \in {"idle", "returned"}
  /\ LET job == IdleScan(scanRuns[j].tree, scanRuns[j].rev)
     IN  scanRuns' = [scanRuns EXCEPT ![j] =
                        IF RootChecks(job.rev) THEN [job EXCEPT !.pc = "rootStat"]
                        ELSE collectFilesRecursive(job, 0)]
  /\ activeScanControl' = j
  /\ UNCHANGED <<probes, executionRunning, mapping, scan, ledger, slotSeq, dest, frames, runs, ui>>

\* await fs.promises.stat(normalizedRoot)
rootStat(j) ==
  /\ scanRuns[j].pc = "rootStat"
  /\ \/ Settle(j, [scanRuns[j] EXCEPT !.pc = "rootAccess"])
     \/ Settle(j, Finish(scanRuns[j], FALSE, "root"))

\* await fs.promises.access(normalizedRoot), then buildIngestionPlan
rootAccess(j) ==
  /\ scanRuns[j].pc = "rootAccess"
  /\ \/ Settle(j, collectFilesRecursive(scanRuns[j], 0))
     \/ Settle(j, Finish(scanRuns[j], FALSE, "root"))

\* await fs.promises.readdir(currentFolder)
readdir(j) ==
  /\ scanRuns[j].pc = "readdir"
  /\ \/ Settle(j, Advance(scanRuns[j]))
     \/ Settle(j, ReaddirFailed([scanRuns[j] EXCEPT !.unreadable = @ \cup {Top(scanRuns[j]).dir}]))

\* await fs.promises.stat(fullPath), then the start of hashFileSha256
stat(j) ==
  /\ scanRuns[j].pc = "stat"
  /\ \/ Settle(j, hashFileSha256(scanRuns[j]))
     \/ Settle(j, Fail([scanRuns[j] EXCEPT !.ioFailed = @ \cup {CurrentFile(scanRuns[j])}], "io"))

\* the stream's data event
hashData(j) ==
  /\ scanRuns[j].pc = "hash"
  /\ scanRuns[j].chunks > 0
  /\ Settle(j, IF scanRuns[j].cancelled
               THEN Fail([scanRuns[j] EXCEPT !.chunks = 0], "Scan cancelled by user")
               ELSE [scanRuns[j] EXCEPT !.chunks = @ - 1])

\* the stream's end event, then collector.push
hashEnd(j) ==
  /\ scanRuns[j].pc = "hash"
  /\ scanRuns[j].chunks = 0
  /\ Settle(j, Advance([scanRuns[j] EXCEPT !.collector = Append(@, CurrentFile(scanRuns[j]))]))

\* the stream's error event
hashError(j) ==
  /\ scanRuns[j].pc = "hash"
  /\ Settle(j, Fail([scanRuns[j] EXCEPT !.chunks = 0, !.ioFailed = @ \cup {CurrentFile(scanRuns[j])}], "io"))

\* cancel-scan-folder
cancelScanFolder ==
  /\ IF activeScanControl = 0 THEN scanRuns' = scanRuns
     ELSE scanRuns' = [scanRuns EXCEPT
             ![activeScanControl].cancelled = TRUE,
             ![activeScanControl].cancelledAt =
                IF scanRuns[activeScanControl].cancelled THEN @ ELSE scanRuns[activeScanControl].pc]
  /\ UNCHANGED <<probes, executionRunning, mapping, activeScanControl, scan, ledger, slotSeq, dest, frames, runs, ui>>

ScanRun(j) ==
  \/ rootStat(j)
  \/ rootAccess(j)
  \/ readdir(j)
  \/ stat(j)
  \/ hashData(j)
  \/ hashEnd(j)
  \/ hashError(j)

Step(r) ==
  \/ \E pendingShaSet \in SUBSET Shas : Start(r, pendingShaSet)
  \/ Exists(r)
  \/ uploadStream(r)
  \/ Stat(r)
  \/ Insert(r)
  \/ SeqRead(r)
  \/ SeqWrite(r)

Run(r) ==
  \/ Exists(r)
  \/ uploadStream(r)
  \/ Stat(r)
  \/ Insert(r)
  \/ SeqRead(r)
  \/ SeqWrite(r)

Renderer(r) ==
  \/ \E dryRunByPath \in DryRuns : handleRunExecutionDryRun(dryRunByPath)
  \/ \E dryRunByPath \in DryRuns : handleRunExecutionPreflight(dryRunByPath)
  \/ handleExecuteUpload(r)
  \/ \E dryRunByPath \in DryRuns : ExecuteUploadSettled(r, dryRunByPath)

\* executor runs never overlap: one handler instance at a time
Next == Step(1)

Spec == Init /\ [][Next]_vars

\* two executor instances (two installations, or two invocations) interleave
NextConc == \E r \in Runs : Step(r)

\* the interleavings are explored over the scans of at most MaxConcFiles files
InitConc == Init /\ Len(scan) <= MaxConcFiles

SpecConc == InitConc /\ [][NextConc]_vars

\* the renderer drives one executor: dry run, preflight, execute
NextUI == Renderer(1) \/ Run(1)

InitUI == Init /\ Len(scan) <= MaxUIFiles

SpecUI == InitUI /\ [][NextUI]_vars

\* the operator keeps retrying over readable files: dry run, preflight, execute,
\* as often as the run bound allows; a step of the last run injects no failure
Readable == [i \in 1..Len(scan) |-> TRUE]

FaultStep ==
  \/ frames'[1].failedItem # 0 /\ frames[1].failedItem = 0
  \/ frames'[1].pc = "threw" /\ frames[1].pc # "threw"
  \/ /\ frames[1].pc = "upload"
     /\ LET item == frames[1].items[frames[1].idx]
        IN  dest'[DestinationPath(item)].sha256 # item.sha256

Transient == runs = MaxRuns => ~FaultStep

RetryRun(r) == Run(r) /\ Transient

Operator(r) ==
  \/ handleRunExecutionDryRun(Readable)
  \/ handleExecuteUpload(r)
  \/ ExecuteUploadSettled(r, Readable)
  \/ handleRunExecutionPreflight(Readable)

NextRetry == Operator(1) \/ RetryRun(1)

InitRetry == Init /\ Len(scan) <= MaxRetryFiles

\* every awaited operation of the executor settles, and the operator does not
\* stop while a button still changes something
SpecRetry ==
  /\ InitRetry
  /\ [][NextRetry]_vars
  /\ WF_vars(RetryRun(1))
  /\ WF_vars(Operator(1))

\* one scan at a time, which the operator may cancel; the pipeline has no plan yet
NextScan == scanFolder(1) \/ ScanRun(1) \/ cancelScanFolder

InitScan ==
  /\ scan = <<>>
  /\ ledger = <<>>
  /\ slotSeq = [s \in Slots |-> 0]
  /\ dest = [p \in DestPaths |-> NoFile]
  /\ frames = [r \in Runs |-> IdleFrame]
  /\ runs = 0
  /\ executionPreflight = NoPreflight
  /\ executionValidation = "none"
  /\ uploadRunning = FALSE
  /\ \E tree \in Trees, rev \in Revisions :
        scanRuns = [j \in ScanIds |-> IF j = 1 THEN IdleScan(tree, rev) ELSE IdleScan(EmptyTree, rev)]
  /\ activeScanControl = 0
  /\ planListing = CanonicalListing(scan)
  /\ slotNamingOverrides = [slotId \in Slots |-> NoOverride]
  /\ executionRunning = NoDryRun
  /\ dryRunStream = IdleProbe
  /\ verificationSummary = NoVerification
  /\ rendererScan = IdleRendererScan(<<>>)
  /\ mappingPlan = mappingPlanOf(scan, planListing, slotNamingOverrides)

SpecScan == InitScan /\ [][NextScan]_vars

\* two scan-folder calls overlap: each has its own scanControl, the module has
\* one activeScanControl
OverlapTrees == {tree \in Trees : Len(tree.root) <= 1 /\ tree.sub = <<>>}

NextScanOverlap ==
  \/ \E j \in ScanIds : scanFolder(j)
  \/ \E j \in ScanIds : ScanRun(j)
  \/ cancelScanFolder

InitScanOverlap ==
  /\ scan = <<>>
  /\ ledger = <<>>
  /\ slotSeq = [s \in Slots |-> 0]
  /\ dest = [p \in DestPaths |-> NoFile]
  /\ frames = [r \in Runs |-> IdleFrame]
  /\ runs = 0
  /\ executionPreflight = NoPreflight
  /\ executionValidation = "none"
  /\ uploadRunning = FALSE
  /\ \E rev \in Revisions :
        scanRuns \in [ScanIds -> {IdleScan(tree, rev) : tree \in OverlapTrees}]
  /\ activeScanControl = 0
  /\ planListing = CanonicalListing(scan)
  /\ slotNamingOverrides = [slotId \in Slots |-> NoOverride]
  /\ executionRunning = NoDryRun
  /\ dryRunStream = IdleProbe
  /\ verificationSummary = NoVerification
  /\ rendererScan = IdleRendererScan(<<>>)
  /\ mappingPlan = mappingPlanOf(scan, planListing, slotNamingOverrides)

SpecScanOverlap == InitScanOverlap /\ [][NextScanOverlap]_vars

\* every filesystem operation the scan awaits settles
SpecScanFair == SpecScan /\ WF_vars(ScanRun(1))

\* the operator assigns the folder of a file to a slot; the memo is recomputed
handleAssignFolderToSlot(i, slotId) ==
  /\ scan[i].slot # slotId
  /\ scan' = [scan EXCEPT ![i].slot = slotId]
  /\ executionValidation' = "none"
  /\ executionPreflight' = NoPreflight
  /\ mappingPlan' = mappingPlanOf(scan', planListing, slotNamingOverrides)
  /\ UNCHANGED <<probes, executionRunning, planListing, slotNamingOverrides, scanning, ledger, slotSeq, dest, frames, runs, uploadRunning>>

\* the operator types a prefix for a slot; the memo is recomputed
handleSlotPrefixOverride(slotId, prefix) ==
  /\ slotNamingOverrides' = [slotNamingOverrides EXCEPT ![slotId].prefix = prefix]
  /\ executionValidation' = "none"
  /\ executionPreflight' = NoPreflight
  /\ mappingPlan' = mappingPlanOf(scan, planListing, slotNamingOverrides')
  /\ UNCHANGED <<probes, executionRunning, planListing, scanning, scan, ledger, slotSeq, dest, frames, runs, uploadRunning>>

\* Number.parseInt(rawPadding, 10), clamped to 1..8, 4 when it is not a number
RawPaddings == {"x", "0", "9"}
parseInt(rawPadding) == CASE rawPadding = "0" -> 0 [] rawPadding = "9" -> 9
isFinite(rawPadding) == rawPadding \in {"0", "9"}
Min(a, b) == IF a <= b THEN a ELSE b
paddingOf(rawPadding) == IF isFinite(rawPadding) THEN Min(8, Max(1, parseInt(rawPadding))) ELSE 4

\* the operator types a padding for a slot; the memo is recomputed
handleSlotPaddingOverride(slotId, rawPadding) ==
  /\ slotNamingOverrides' = [slotNamingOverrides EXCEPT ![slotId].padding = paddingOf(rawPadding)]
  /\ executionValidation' = "none"
  /\ executionPreflight' = NoPreflight
  /\ mappingPlan' = mappingPlanOf(scan, planListing, slotNamingOverrides')
  /\ UNCHANGED <<probes, executionRunning, planListing, scanning, scan, ledger, slotSeq, dest, frames, runs, uploadRunning>>

NextPlan == \E i \in 1..Len(scan), slotId \in Slots : handleAssignFolderToSlot(i, slotId)

\* any plan of one file per folder, listed in any order
PlanScans ==
  UNION {[1..n -> [sha : {ShaOrder[1]}, slot : Slots]] : n \in 0..MaxFiles}

InitPlan ==
  /\ scan \in PlanScans
  /\ planListing \in Listings(Len(scan))
  /\ slotNamingOverrides = [slotId \in Slots |-> NoOverride]
  /\ executionRunning = NoDryRun
  /\ dryRunStream = IdleProbe
  /\ verificationSummary = NoVerification
  /\ rendererScan = IdleRendererScan(<<>>)
  /\ mappingPlan = mappingPlanOf(scan, planListing, slotNamingOverrides)
  /\ ledger = <<>>
  /\ slotSeq = [s \in Slots |-> 0]
  /\ dest = [p \in DestPaths |-> NoFile]
  /\ frames = [r \in Runs |-> IdleFrame]
  /\ runs = 0
  /\ executionPreflight = NoPreflight
  /\ executionValidation = "none"
  /\ uploadRunning = FALSE
  /\ scanRuns = [j \in ScanIds |-> IdleScan(EmptyTree, "index.ts")]
  /\ activeScanControl = 0

SpecPlan == InitPlan /\ [][NextPlan]_vars

\* the operator edits assignments, prefixes and paddings of a scanned plan
RawPrefixes == {<<>>, <<" ", "P", " ", " ", "A", "?">>, <<" ", "?">>}
NextNaming ==
  \/ \E i \in 1..Len(scan), slotId \in Slots : handleAssignFolderToSlot(i, slotId)
  \/ \E slotId \in Slots, prefix \in RawPrefixes : handleSlotPrefixOverride(slotId, prefix)
  \/ \E slotId \in Slots, rawPadding \in RawPaddings : handleSlotPaddingOverride(slotId, rawPadding)

NameScans ==
  UNION {[1..n -> [sha : {ShaOrder[1], ShaOrder[2]}, slot : Slots]] : n \in 0..MaxNameFiles}

InitNaming ==
  /\ scan \in NameScans
  /\ \E extension \in [1..Len(scan) -> Extensions] :
        planListing = [CanonicalListing(scan) EXCEPT !.extension = extension]
  /\ slotNamingOverrides = [slotId \in Slots |-> NoOverride]
  /\ executionRunning = NoDryRun
  /\ dryRunStream = IdleProbe
  /\ verificationSummary = NoVerification
  /\ rendererScan = IdleRendererScan(<<>>)
  /\ mappingPlan = mappingPlanOf(scan, planListing, slotNamingOverrides)
  /\ ledger = <<>>
  /\ slotSeq = [s \in Slots |-> 0]
  /\ dest = [p \in DestPaths |-> NoFile]
  /\ frames = [r \in Runs |-> IdleFrame]
  /\ runs = 0
  /\ executionPreflight = NoPreflight
  /\ executionValidation = "none"
  /\ uploadRunning = FALSE
  /\ scanRuns = [j \in ScanIds |-> IdleScan(EmptyTree, "index.ts")]
  /\ activeScanControl = 0

SpecNaming == InitNaming /\ [][NextNaming]_vars

\* handleRunExecutionDryRun up to its await: the closure keeps the plan of the call
handleRunExecutionDryRunCalled ==
  /\ ~executionRunning.running
  /\ IF executionPlan = <<>>
     THEN executionValidation' = "blocked" /\ UNCHANGED executionRunning
     ELSE /\ executionRunning' = [running |-> TRUE, items |-> executionPlan, errors |-> {}]
          /\ UNCHANGED executionValidation
  /\ UNCHANGED <<probes, mapping, scanning, scan, ledger, slotSeq, dest, frames, runs, executionPreflight, uploadRunning>>

\* handleRunExecutionDryRun after dryRunStreamOpen answered for the items of the call
handleRunExecutionDryRunSettled(dryRunByPath) ==
  /\ executionRunning.running
  /\ LET errors == {executionRunning.items[i].sourcePath :
                      i \in {j \in 1..Len(executionRunning.items) :
                               ~dryRunByPath[executionRunning.items[j].sourcePath]}}
     IN  /\ executionValidation' = IF errors = {} THEN "ready" ELSE "blocked"
         /\ executionRunning' = [executionRunning EXCEPT !.running = FALSE, !.errors = errors]
  /\ UNCHANGED <<probes, mapping, scanning, scan, ledger, slotSeq, dest, frames, runs, executionPreflight, uploadRunning>>

\* the slotId of the handler's delete branch: the folder leaves the plan
Unassigned == ""

\* the operator edits the plan between and during dry run, preflight and execution
EditPrefixes == {<<>>, <<" ", "P", " ", " ", "A", "?">>}
Editor ==
  \/ \E i \in 1..Len(scan), slotId \in Slots : handleAssignFolderToSlot(i, slotId)
  \/ \E prefix \in EditPrefixes : handleSlotPrefixOverride(SlotOrder[2], prefix)

\* one execution over readable files in which no operation fails; the operator
\* edits the plan while the executor is not running
NextEdit ==
  \/ handleRunExecutionDryRun(Readable)
  \/ handleRunExecutionPreflight(Readable)
  \/ handleExecuteUpload(1) /\ runs = 0
  \/ ExecuteUploadSettled(1, Readable)
  \/ Run(1) /\ ~FaultStep
  \/ Editor /\ ~uploadRunning

InitEdit == Init /\ Len(scan) <= MaxEditFiles /\ ledger = <<>>

SpecEdit == InitEdit /\ [][NextEdit]_vars

\* folders leave and enter the plan while a dry run is in flight
NextStale ==
  \/ handleRunExecutionDryRunCalled
  \/ handleRunExecutionDryRunSettled(Readable)
  \/ handleRunExecutionPreflight(Readable)
  \/ handleExecuteUpload(1) /\ runs = 0
  \/ ExecuteUploadSettled(1, Readable)
  \/ Run(1) /\ ~FaultStep
  \/ \E i \in 1..Len(scan), slotId \in Slots \cup {Unassigned} :
        handleAssignFolderToSlot(i, slotId) /\ ~uploadRunning

\* files of distinct content, one per scanned folder
InitStale == InitEdit /\ \A i \in 1..Len(scan) : scan[i].sha = ShaOrder[i]

SpecStale == InitStale /\ [][NextStale]_vars

\* ------------------------------------------------- dry-run-stream-open
\* the error codes a file operation rejects with; EIO stands for every other code
\* and for an error without a code
FsErrorCodes == {"ENOENT", "EACCES", "EPERM", "EIO"}
classifyFsError(code) ==
  IF code = "ENOENT" THEN "missing"
  ELSE IF code \in {"EACCES", "EPERM"} THEN "permission"
  ELSE "unreadable"

ProbeSizes == {0, 2, 3}
ExpectedSizes == {0, 2}
ProbePaths == {1, 2}
NoSize == -1
\* what fs.promises.stat answers: an error code, or the kind and size of the file
StatOutcomes ==
  [code : FsErrorCodes, isFile : {FALSE}, size : {0}] \cup [code : {"ok"}, isFile : BOOLEAN, size : ProbeSizes]
\* what probeReadStream answers
OpenOutcomes == {"ok"} \cup FsErrorCodes
DryRunRequests ==
  UNION {[1..n -> [sourcePath : ProbePaths, expectedSizeBytes : ExpectedSizes]] : n \in 0..MaxProbeItems}

DryRunFileResult(item, ok, errorType, currentSizeBytes) ==
  [sourcePath |-> item.sourcePath, ok |-> ok, errorType |-> errorType,
   expectedSizeBytes |-> item.expectedSizeBytes, currentSizeBytes |-> currentSizeBytes]

\* whether the iteration reaches probeReadStream
opens(item, stats) ==
  stats.code = "ok" /\ stats.isFile /\ stats.size # 0 /\ stats.size = item.expectedSizeBytes

\* one iteration of the loop over the items
probeSizeFirst(item, stats, opened) ==
  IF stats.code # "ok" THEN DryRunFileResult(item, FALSE, classifyFsError(stats.code), NoSize)
  ELSE IF ~stats.isFile THEN DryRunFileResult(item, FALSE, "unreadable", NoSize)
  ELSE IF stats.size # item.expectedSizeBytes THEN DryRunFileResult(item, FALSE, "hash_mismatch", stats.size)
  ELSE IF stats.size = 0 THEN DryRunFileResult(item, FALSE, "zero_byte", stats.size)
  ELSE IF opened # "ok" THEN DryRunFileResult(item, FALSE, classifyFsError(opened), NoSize)
  ELSE DryRunFileResult(item, TRUE, "null", stats.size)
probe(item, stats, opened) ==
  IF stats.code # "ok" THEN DryRunFileResult(item, FALSE, classifyFsError(stats.code), NoSize)
  ELSE IF ~stats.isFile THEN DryRunFileResult(item, FALSE, "unreadable", NoSize)
  ELSE IF stats.size = 0 THEN DryRunFileResult(item, FALSE, "zero_byte", stats.size)
  ELSE IF stats.size # item.expectedSizeBytes THEN DryRunFileResult(item, FALSE, "hash_mismatch", stats.size)
  ELSE IF opened # "ok" THEN DryRunFileResult(item, FALSE, classifyFsError(opened), NoSize)
  ELSE DryRunFileResult(item, TRUE, "null", stats.size)

\* the handler is called with the items
dryRunStreamOpen(items) ==
  /\ dryRunStream.pc \in {"idle", "returned"}
  /\ dryRunStream' = [pc |-> "loop", items |-> items, results |-> <<>>, seen |-> <<>>]
  /\ UNCHANGED <<verificationSummary, rendererScan, executionRunning, mapping, scanning, scan, ledger, slotSeq, dest, frames, runs, ui>>

\* the next item: stat, the checks, probeReadStream; seen keeps what the file
\* operations answered
dryRunStreamOpenItem(stats, opened) ==
  /\ dryRunStream.pc = "loop"
  /\ Len(dryRunStream.results) < Len(dryRunStream.items)
  /\ LET item == dryRunStream.items[Len(dryRunStream.results) + 1]
     IN  dryRunStream' =
           [dryRunStream EXCEPT
              !.results = Append(@, probe(item, stats, opened)),
              !.seen = Append(@, [stats |-> stats,
                                  opened |-> IF opens(item, stats) THEN opened ELSE "untried"])]
  /\ UNCHANGED <<verificationSummary, rendererScan, executionRunning, mapping, scanning, scan, ledger, slotSeq, dest, frames, runs, ui>>

dryRunStreamOpenReturn ==
  /\ dryRunStream.pc = "loop"
  /\ Len(dryRunStream.results) = Len(dryRunStream.items)
  /\ dryRunStream' = [dryRunStream EXCEPT !.pc = "returned"]
  /\ UNCHANGED <<verificationSummary, rendererScan, executionRunning, mapping, scanning, scan, ledger, slotSeq, dest, frames, runs, ui>>

NextProbe ==
  \/ \E items \in DryRunRequests : dryRunStreamOpen(items)
  \/ \E stats \in StatOutcomes, opened \in OpenOutcomes : dryRunStreamOpenItem(stats, opened)
  \/ dryRunStreamOpenReturn

InitProbe == Init /\ Len(scan) = 1 /\ scan[1] = [sha |-> ShaOrder[1], slot |-> SlotOrder[1]] /\ ledger = <<>>

SpecProbe == InitProbe /\ [][NextProbe]_vars

\* ---------------------------------------------- verify-destination-paths
Null == -1
\* the rows loadExistingUploadsForProject answers, in the order of the table
existingUploadRows(l, projectId) ==
  SelectSeq(l, LAMBDA row : row.project_id = projectId /\ row.is_source_file /\ row.upload_stage = "completed")

\* resolveDriveUriToLocalPath throws for every scheme but drive://
resolves(filePath) == filePath.scheme = "drive"
resolveDriveUriToLocalPath(filePath) == filePath.path
basename(path) == path[2]

VerifyDestinationRequestItem(row) ==
  [filePath |-> row.file_path, expectedSizeBytes |-> row.file_size, expectedFilename |-> row.final_filename]

\* whether fs.promises.stat finds a file at the path under the drive root
statFinds(disk, localPath) == localPath \in DOMAIN disk /\ disk[localPath] # NoFile

NotVerified(item) ==
  [filePath |-> item.filePath,
   localPath |-> IF resolves(item.filePath) THEN resolveDriveUriToLocalPath(item.filePath) ELSE <<>>,
   exists |-> FALSE, filenameMatches |-> FALSE, sizeMatches |-> FALSE, actualSizeBytes |-> Null]

\* one iteration of the loop of verify-destination-paths
verifyDestination(disk, item) ==
  IF ~resolves(item.filePath) \/ ~statFinds(disk, resolveDriveUriToLocalPath(item.filePath))
  THEN NotVerified(item)
  ELSE LET localPath == resolveDriveUriToLocalPath(item.filePath)
           expectedFilename == IF item.expectedFilename = Null THEN basename(item.filePath.path)
                               ELSE item.expectedFilename
       IN  [filePath |-> item.filePath,
            localPath |-> localPath,
            exists |-> TRUE,
            filenameMatches |-> basename(localPath) = expectedFilename,
            sizeMatches |-> IF item.expectedSizeBytes = Null THEN TRUE
                            ELSE disk[localPath].size = item.expectedSizeBytes,
            actualSizeBytes |-> disk[localPath].size]

verifyDestinationPaths(disk, items) == [i \in 1..Len(items) |-> verifyDestination(disk, items[i])]

\* handleRunVerification: the ledger is read, the rows are verified, the summary is
\* set; when the drive root is not configured the handler throws and the summary
\* stays null
handleRunVerification(configured) ==
  /\ LET uploads == existingUploadRows(ledger, Project)
         verifyItems == [i \in 1..Len(uploads) |-> VerifyDestinationRequestItem(uploads[i])]
         results == verifyDestinationPaths(dest, verifyItems)
         valid == Cardinality({i \in 1..Len(results) :
                                 results[i].exists /\ results[i].filenameMatches /\ results[i].sizeMatches})
     IN  verificationSummary' =
           IF configured
           THEN [ran |-> TRUE, checked |-> Len(results), valid |-> valid,
                 invalid |-> Len(results) - valid, details |-> results, uploads |-> uploads]
           ELSE NoVerification
  /\ UNCHANGED <<dryRunStream, rendererScan, executionRunning, mapping, scanning, scan, ledger, slotSeq, dest, frames, runs, ui>>

\* a destination file is deleted outside the application
unlink(path) ==
  /\ dest[path] # NoFile
  /\ dest' = [dest EXCEPT ![path] = NoFile]
  /\ UNCHANGED <<probes, executionRunning, mapping, scanning, scan, ledger, slotSeq, frames, runs, ui>>

\* a completed row another writer left for a file under the drive root, with
\* the filename and size it recorded
DriveRow(path, sha256, filename, size) ==
  [project_id |-> Project, slot_id |-> path[1], is_source_file |-> TRUE,
   upload_stage |-> "completed", file_path |-> DriveUri(path),
   final_filename |-> filename, sha256 |-> sha256,
   file_size |-> size, sequence_number |-> path[2], by |-> 0]

VerifyPath == <<SlotOrder[2], MaxFiles>>
VerifyLedgers ==
  {<<>>} \cup {<<DriveRow(VerifyPath, ShaOrder[3], filename, size)>> :
                 filename \in {MaxFiles, Null}, size \in {SizeOf(ShaOrder[3]), 1}}

NextVerify ==
  \/ Start(1, Shas)
  \/ Run(1)
  \/ \E configured \in BOOLEAN : handleRunVerification(configured)
  \/ \E path \in DestPaths : unlink(path)

InitVerify ==
  /\ scan \in Scans
  /\ Len(scan) <= MaxVerifyFiles
  /\ \A i \in 1..Len(scan) : scan[i].sha = ShaOrder[i]
  /\ ledger \in VerifyLedgers
  /\ slotSeq = [slot \in Slots |-> 0]
  /\ dest = [path \in DestPaths |->
               IF ledger # <<>> /\ path = VerifyPath
               THEN [sha256 |-> ShaOrder[3], size |-> SizeOf(ShaOrder[3])] ELSE NoFile]
  /\ frames = [r \in Runs |-> IdleFrame]
  /\ runs = 0
  /\ executionPreflight = NoPreflight
  /\ executionValidation = "none"
  /\ uploadRunning = FALSE
  /\ scanRuns = [j \in ScanIds |-> IdleScan(EmptyTree, "index.ts")]
  /\ activeScanControl = 0
  /\ planListing = CanonicalListing(scan)
  /\ slotNamingOverrides = [slotId \in Slots |-> NoOverride]
  /\ executionRunning = NoDryRun
  /\ dryRunStream = IdleProbe
  /\ verificationSummary = NoVerification
  /\ rendererScan = IdleRendererScan(<<>>)
  /\ mappingPlan = mappingPlanOf(scan, planListing, slotNamingOverrides)

SpecVerify == InitVerify /\ [][NextVerify]_vars

\* the operator ingests a folder into a slot, takes it out of the plan and ingests
\* another folder into the same slot; no operation fails
NextReingest ==
  \/ Start(1, Shas)
  \/ Run(1) /\ ~FaultStep
  \/ \E i \in 1..Len(scan), slotId \in Slots \cup {Unassigned} :
        handleAssignFolderToSlot(i, slotId) /\ ~Active(1)

SpecReingest == InitStale /\ [][NextReingest]_vars

\* ------------------------------------------------------ renderer scan
\* the files of the stored plan as the rename plan sees them: no folder is assigned
scanOf(plan) ==
  [i \in 1..Len(plan.files) |->
     [sha |-> ShaOrder[((i - 1) % Len(ShaOrder)) + 1], slot |-> Unassigned]]

\* handleScan up to await window.api.scanFolder: the button is disabled while scanning
handleScanCalled(j) ==
  /\ ~rendererScan.scanning
  /\ rendererScan.requests[j] = "none"
  /\ \A k \in 1..(j - 1) : rendererScan.requests[k] # "none"
  /\ rendererScan' = [rendererScan EXCEPT
        !.scanning = TRUE, !.scanHasRun = FALSE, !.requests[j] = "inflight",
        !.scanResult = [success |-> TRUE, plan |-> EMPTY_INGESTION_PLAN, error |-> "none", request |-> j]]
  /\ scan' = <<>>
  /\ slotNamingOverrides' = [slotId \in Slots |-> NoOverride]
  /\ planListing' = CanonicalListing(scan')
  /\ mappingPlan' = mappingPlanOf(scan', planListing', slotNamingOverrides')
  /\ executionValidation' = "none"
  /\ executionPreflight' = NoPreflight
  /\ verificationSummary' = NoVerification
  /\ UNCHANGED <<dryRunStream, executionRunning, scanning, ledger, slotSeq, dest, frames, runs, uploadRunning>>

\* handleScan after scanFolder answered: the plan of the folder, or the error of a
\* cancelled or failed scan; then the finally block
handleScanSettled(j, success) ==
  /\ rendererScan.requests[j] = "inflight"
  /\ rendererScan' = [rendererScan EXCEPT
        !.scanning = FALSE, !.scanHasRun = TRUE, !.requests[j] = "settled",
        !.scanResult =
            IF success
            THEN [success |-> TRUE, plan |-> normalizeIngestionPlan(ingestionPlan(rendererScan.folder)),
                  error |-> "none", request |-> j]
            ELSE [success |-> FALSE, plan |-> EMPTY_INGESTION_PLAN,
                  error |-> "Scan cancelled by user", request |-> j]]
  /\ scan' = scanOf(rendererScan'.scanResult.plan)
  /\ planListing' = CanonicalListing(scan')
  /\ mappingPlan' = mappingPlanOf(scan', planListing', slotNamingOverrides)
  /\ UNCHANGED <<dryRunStream, verificationSummary, executionRunning, slotNamingOverrides, scanning,
                 ledger, slotSeq, dest, frames, runs, ui>>

\* Abort Scan: the cancel request is sent, then the finally block
handleCancelScan ==
  /\ rendererScan.scanning
  /\ rendererScan' = [rendererScan EXCEPT !.scanning = FALSE]
  /\ UNCHANGED <<dryRunStream, verificationSummary, executionRunning, mapping, scanning,
                 scan, ledger, slotSeq, dest, frames, runs, ui>>

InitRendererScanOf(folders) ==
  /\ scan = <<>>
  /\ ledger = <<>>
  /\ slotSeq = [s \in Slots |-> 0]
  /\ dest = [p \in DestPaths |-> NoFile]
  /\ frames = [r \in Runs |-> IdleFrame]
  /\ runs = 0
  /\ executionPreflight = NoPreflight
  /\ executionValidation = "none"
  /\ uploadRunning = FALSE
  /\ scanRuns = [j \in ScanIds |-> IdleScan(EmptyTree, "index.ts")]
  /\ activeScanControl = 0
  /\ planListing = CanonicalListing(scan)
  /\ slotNamingOverrides = [slotId \in Slots |-> NoOverride]
  /\ executionRunning = NoDryRun
  /\ dryRunStream = IdleProbe
  /\ verificationSummary = NoVerification
  /\ \E folder \in folders : rendererScan = IdleRendererScan(folder)
  /\ mappingPlan = mappingPlanOf(scan, planListing, slotNamingOverrides)

\* the operator scans, aborts and scans again
NextRendererScan ==
  \/ \E j \in ScanRequests : handleScanCalled(j)
  \/ \E j \in ScanRequests, success \in BOOLEAN : handleScanSettled(j, success)
  \/ handleCancelScan
InitRendererScan == InitRendererScanOf({folder \in FolderContents : Len(folder) <= 1})
SpecRendererScan == InitRendererScan /\ [][NextRendererScan]_vars

\* one scan of any folder, to its result
NextFolderGroups ==
  \/ handleScanCalled(1)
  \/ \E success \in BOOLEAN : handleScanSettled(1, success)
InitFolderGroups == InitRendererScanOf(FolderContents)
SpecFolderGroups == InitFolderGroups /\ [][NextFolderGroups]_vars

TypeOK ==
  /\ rendererScan.scanResult.plan.totalFiles \in 0..MaxGroupFiles
  /\ runs \in 0..MaxRuns
  /\ \A s \in Slots : slotSeq[s] \in 0..MaxFiles
  /\ \A r \in Runs : frames[r].pc \in {"idle", "exists", "upload", "stat", "insert", "seqRead", "seqWrite", "returned", "threw"}
\* --------------------------------------------------------------- claims
MaxOf(S) == IF S = {} THEN 0 ELSE CHOOSE x \in S : \A y \in S : y <= x

Finalizing == {"seqRead", "seqWrite"}
Settled == {"returned", "threw"}

\* the result rows of a frame with one of the given statuses, as item positions
RowsWith(f, statuses) == {i \in 1..Len(f.results) : f.results[i] \in statuses}

\* the ledger rows instance r inserted for the item at position i of its current batch
InsertedFor(r, i) ==
  LET item == frames[r].items[i]
  IN  {k \in (frames[r].startLen + 1)..Len(ledger) :
         /\ ledger[k].by = r
         /\ ledger[k].project_id = item.projectId
         /\ ledger[k].slot_id = item.slotId
         /\ ledger[k].sha256 = item.sha256
         /\ ledger[k].file_path = destinationPath(item)
         /\ ledger[k].sequence_number = item.plannedSequence
         /\ ledger[k].upload_stage = "completed"}

\* every item of the slot in the batch has a result row, and it is success or skipped
AllItemsSucceeded(f, slot) ==
  \A i \in 1..Len(f.items) :
     f.items[i].slotId = slot => i <= Len(f.results) /\ f.results[i] \in {"success", "skipped"}

\* the sequence numbers the run inserted for the slot
InsertedSequences(f, slot) ==
  {f.items[i].plannedSequence : i \in {j \in RowsWith(f, {"success"}) : f.items[j].slotId = slot}}

\* C1: after any sequence of non-overlapping executor runs over any batches, the
\* ledger holds at most one completed entry per (projectId, sha256).
C1_OneCompletedEntryPerSha ==
  \A projectId \in {Project, OtherProject} : \A sha256 \in Shas :
     Cardinality({k \in 1..Len(ledger) :
        /\ ledger[k].project_id = projectId
        /\ ledger[k].sha256 = sha256
        /\ ledger[k].upload_stage = "completed"}) <= 1

\* a second run has returned whose batch held two items of one sha256: the first
\* was inserted, the second skipped
C1_Witness ==
  /\ runs = 2
  /\ frames[1].pc = "returned"
  /\ \E i, j \in 1..Len(frames[1].results) :
        /\ i < j
        /\ frames[1].items[i].sha256 = frames[1].items[j].sha256
        /\ frames[1].results[i] = "success"
        /\ frames[1].results[j] = "skipped"

\* C2: fail-fast.  Once an item of a run failed, the run is finalizing or has
\* settled, the failed item is the last one that has a result row, and no later
\* step of the run queries the ledger for, writes a destination file for, inserts
\* a ledger row for or appends a result row for another item.
C2_Halted ==
  \A r \in Runs :
     frames[r].failedItem # 0 =>
        /\ frames[r].pc \in Finalizing \cup Settled
        /\ frames[r].idx = frames[r].failedItem
        /\ Len(frames[r].results) = frames[r].failedItem
        /\ frames[r].failedCount = 1

C2_FailFast ==
  /\ []C2_Halted
  /\ [][\A r \in Runs :
          (frames[r].failedItem # 0 /\ runs' = runs) =>
             /\ ledger' = ledger
             /\ dest' = dest
             /\ frames'[r].results = frames[r].results
             /\ frames'[r].idx = frames[r].idx
             /\ frames'[r].pc \in Finalizing \cup Settled]_vars

\* a run returned after its first item failed while a later item was left
C2_Witness ==
  /\ frames[1].pc = "returned"
  /\ frames[1].failedItem # 0
  /\ frames[1].failedItem < Len(frames[1].items)

\* C3: a step changes a slot's counter only for a slot whose every item in the
\* batch succeeded (inserted or skipped), so a slot holding the failed item or an
\* unattempted item keeps its counter; and when a run has returned, every slot
\* whose every item succeeded and that received an insert stands at or above the
\* largest sequence the run inserted for it, also when the run halted.
C3_AdvanceOnlyCompleteSlots ==
  /\ [][\A slot \in Slots :
          slotSeq'[slot] # slotSeq[slot] =>
             \E r \in Runs :
                /\ frames[r].pc = "seqWrite"
                /\ Head(frames[r].slotQueue) = slot
                /\ AllItemsSucceeded(frames[r], slot)]_vars
  /\ [](\A slot \in Slots :
          (/\ frames[1].pc = "returned"
           /\ AllItemsSucceeded(frames[1], slot)
           /\ InsertedSequences(frames[1], slot) # {})
          => slotSeq[slot] >= MaxOf(InsertedSequences(frames[1], slot)))

\* a first run halted on a slot after it completed another slot: the completed
\* slot is advanced, the failed one is not
C3_Witness ==
  /\ runs = 1
  /\ frames[1].pc = "returned"
  /\ frames[1].failedItem # 0
  /\ \E done, failed \in Slots :
        /\ AllItemsSucceeded(frames[1], done)
        /\ InsertedSequences(frames[1], done) # {}
        /\ slotSeq[done] = MaxOf(InsertedSequences(frames[1], done))
        /\ frames[1].items[frames[1].failedItem].slotId = failed
        /\ InsertedSequences(frames[1], failed) # {}
        /\ slotSeq[failed] = 0

\* C4: across non-overlapping runs a slot counter never decreases, and every
\* counter update that the store accepts sets it to the maximum of its value
\* before the update and the largest sequence the run inserted for the slot.
C4_CounterMonotone ==
  [][\A slot \in Slots :
       /\ slotSeq'[slot] >= slotSeq[slot]
       /\ \A r \in Runs :
            (/\ frames[r].pc = "seqWrite"
             /\ Head(frames[r].slotQueue) = slot
             /\ frames'[r].pc \in {"seqRead", "returned"})
            => slotSeq'[slot] =
                 (IF slotSeq[slot] >= MaxOf(InsertedSequences(frames[r], slot))
                  THEN slotSeq[slot]
                  ELSE MaxOf(InsertedSequences(frames[r], slot)))]_vars

\* a run returned after advancing a slot whose counter already stood above the
\* largest sequence of the batch
C4_Witness ==
  /\ frames[1].pc = "returned"
  /\ \E slot \in Slots :
        /\ AllItemsSucceeded(frames[1], slot)
        /\ InsertedSequences(frames[1], slot) # {}
        /\ slotSeq[slot] > MaxOf(InsertedSequences(frames[1], slot))

\* C5: with two runs advancing the same counter concurrently, the counter never
\* decreases and, once both have returned, is at least the largest sequence each
\* of them inserted for a slot it advanced.
C5_ConcurrentAdvance ==
  /\ [][\A slot \in Slots : slotSeq'[slot] >= slotSeq[slot]]_vars
  /\ [](\A slot \in Slots : \A r \in Runs :
          (/\ \A q \in Runs : frames[q].pc = "returned"
           /\ AllItemsSucceeded(frames[r], slot))
          => slotSeq[slot] >= MaxOf(InsertedSequences(frames[r], slot)))

\* C6: a ledger row is inserted only by a run whose current item has been copied
\* and whose destination file has the planned size; a run that finds another size
\* reports the item failed, inserts nothing for it and halts.
C6_InsertAfterVerifiedCopy ==
  /\ [][Len(ledger') > Len(ledger) =>
          \E r \in Runs :
             LET item == frames[r].items[frames[r].idx]
             IN  /\ frames[r].pc = "insert"
                 /\ dest[DestinationPath(item)] = [sha256 |-> item.sha256, size |-> item.sizeBytes]
                 /\ ledger' = Append(ledger, LedgerRow(item, r))]_vars
  /\ [][\A r \in Runs :
          (/\ frames[r].pc = "stat"
           /\ frames'[r] # frames[r]
           /\ dest[DestinationPath(frames[r].items[frames[r].idx])].size
                # frames[r].items[frames[r].idx].sizeBytes)
          => /\ ledger' = ledger
             /\ frames'[r].results = Append(frames[r].results, "failed")
             /\ frames'[r].failedItem = frames[r].idx
             /\ frames'[r].pc \in Finalizing \cup Settled]_vars

\* a run returned after the copy of an item ended with another size than planned
C6_Witness ==
  /\ frames[1].pc = "returned"
  /\ frames[1].failedItem # 0
  /\ LET item == frames[1].items[frames[1].failedItem]
     IN  /\ dest[DestinationPath(item)].sha256 = "changed"
         /\ dest[DestinationPath(item)].size # item.sizeBytes
         /\ InsertedFor(1, frames[1].failedItem) = {}

\* C7: every result row 'success' of a run has exactly one ledger row inserted by
\* that run with the item's slot, sha256, final path and planned sequence; a
\* 'skipped' or 'failed' row has none; the run inserted nothing else.
C7_OneEntryPerSuccess ==
  \A r \in Runs :
     /\ \A i \in 1..Len(frames[r].results) :
          Cardinality(InsertedFor(r, i)) = (IF frames[r].results[i] = "success" THEN 1 ELSE 0)
     /\ Cardinality({k \in (frames[r].startLen + 1)..Len(ledger) : ledger[k].by = r})
          = Cardinality(RowsWith(frames[r], {"success"}))

\* a run returned with an inserted, a skipped and a failed item
C7_Witness ==
  /\ frames[1].pc = "returned"
  /\ RowsWith(frames[1], {"success"}) # {}
  /\ RowsWith(frames[1], {"skipped"}) # {}
  /\ RowsWith(frames[1], {"failed"}) # {}

\* C8: the ledger rows recorded for one plan are gap-free per slot: a row with
\* sequence n > 1 is recorded only when the slot has the row with sequence n - 1.
\* Stated for the first run over the whole plan on a ledger without other rows.
C8_GapFree ==
  (/\ runs = 1
   /\ frames[1].items = executionPlan
   /\ \A k \in 1..Len(ledger) : ledger[k].by # 0)
  => \A k \in 1..Len(ledger) :
        ledger[k].sequence_number > 1 =>
           \E j \in 1..Len(ledger) :
              /\ ledger[j].slot_id = ledger[k].slot_id
              /\ ledger[j].sequence_number = ledger[k].sequence_number - 1

\* C9: a run in which an item failed ends by returning success = false with the
\* failed item and the partial results, the rows inserted before still in the
\* ledger; it never ends in a rejection.
C9_FailureReturnsResult ==
  \A r \in Runs :
     (frames[r].failedItem # 0 /\ frames[r].pc \notin Finalizing) =>
        /\ frames[r].pc = "returned"
        /\ ~frames[r].success
        /\ Len(frames[r].results) = frames[r].failedItem
        /\ frames[r].results[frames[r].failedItem] = "failed"
        /\ \A i \in RowsWith(frames[r], {"success"}) : InsertedFor(r, i) # {}

\* C10: preflight classifies an item already_uploaded whenever a completed row of
\* the project with its sha256 was in the ledger the preflight read, whatever the
\* item's path, slot and dry-run result.
C10_AlreadyUploaded ==
  executionPreflight.ran =>
     \A i \in 1..Len(executionPreflight.fileResults) :
        (\E k \in 1..executionPreflight.ledgerLen :
            /\ ledger[k].project_id = Project
            /\ ledger[k].is_source_file
            /\ ledger[k].upload_stage = "completed"
            /\ ledger[k].sha256 = executionPlan[i].sha256)
        => executionPreflight.fileResults[i].status = "already_uploaded"

\* a preflight found an item already uploaded whose probe failed and whose content
\* the ledger records under another slot
C10_Witness ==
  /\ executionPreflight.ran
  /\ \E i \in 1..Len(executionPreflight.fileResults) :
        /\ executionPreflight.fileResults[i].status = "already_uploaded"
        /\ ~executionPreflight.dryRun[executionPlan[i].sourcePath]
        /\ \E k \in 1..executionPreflight.ledgerLen :
              /\ ledger[k].project_id = Project
              /\ ledger[k].upload_stage = "completed"
              /\ ledger[k].sha256 = executionPlan[i].sha256
              /\ ledger[k].slot_id # executionPlan[i].slotId

\* the completed source rows of the project among the first n rows of the ledger
CompletedShas(n) ==
  {ledger[k].sha256 : k \in {j \in 1..n :
      /\ ledger[j].project_id = Project
      /\ ledger[j].is_source_file
      /\ ledger[j].upload_stage = "completed"}}

\* probe results for some of the plan's source paths only
PartialDryRuns == UNION {[D -> BOOLEAN] : D \in SUBSET (1..Len(scan))}

\* C11: an item whose sha256 is not in the completed set of the ledger is
\* pending_upload exactly when the probe of its source path passed and
\* missing_unreadable otherwise, a path without probe result included; every
\* item has one of the three statuses.
C11_ProbeDecides ==
  /\ executionPreflight.ran =>
        /\ Len(executionPreflight.fileResults) = Len(executionPlan)
        /\ \A i \in 1..Len(executionPlan) :
              LET status == executionPreflight.fileResults[i].status
                  passed == executionPreflight.dryRun[executionPlan[i].sourcePath]
              IN  /\ status \in {"already_uploaded", "pending_upload", "missing_unreadable"}
                  /\ executionPlan[i].sha256 \notin CompletedShas(executionPreflight.ledgerLen) =>
                        /\ status = "pending_upload" <=> passed
                        /\ status = "missing_unreadable" <=> ~passed
  /\ \A i \in 1..Len(executionPlan) : \A d \in PartialDryRuns :
        LET item == executionPlan[i]
            status == fileResults(executionPlan, CompletedShas(Len(ledger)), d)[i].status
        IN  item.sha256 \notin CompletedShas(Len(ledger)) =>
               status = IF item.sourcePath \in DOMAIN d /\ d[item.sourcePath]
                        THEN "pending_upload" ELSE "missing_unreadable"

\* a preflight after a run found one item pending and another, of a content the
\* ledger does not hold, missing
C11_Witness ==
  /\ executionPreflight.ran
  /\ runs > 0
  /\ \E i, j \in 1..Len(executionPreflight.fileResults) :
        /\ executionPreflight.fileResults[i].status = "pending_upload"
        /\ executionPreflight.dryRun[executionPlan[i].sourcePath]
        /\ executionPreflight.fileResults[j].status = "missing_unreadable"
        /\ ~executionPreflight.dryRun[executionPlan[j].sourcePath]
        /\ executionPlan[j].sha256 \notin CompletedShas(executionPreflight.ledgerLen)

\* the positions of a slot's items in the file results with one of the statuses
SlotResults(slotId, statuses) ==
  {i \in 1..Len(executionPreflight.fileResults) :
     /\ executionPreflight.fileResults[i].slotId = slotId
     /\ executionPreflight.fileResults[i].status \in statuses}

PreflightStatuses == {"already_uploaded", "pending_upload", "missing_unreadable"}

\* C12: a slot's preflight status is blocked if one of its items is
\* missing_unreadable, else complete if all its items are already_uploaded, else
\* partial; its three counts are the numbers of its items of each status and add
\* up to totalFiles.
C12_SlotSummary ==
  executionPreflight.ran =>
     /\ {executionPreflight.slotSummaries[k].slotId : k \in 1..Len(executionPreflight.slotSummaries)}
           = {executionPlan[i].slotId : i \in 1..Len(executionPlan)}
     /\ \A k \in 1..Len(executionPreflight.slotSummaries) :
           LET slot == executionPreflight.slotSummaries[k]
           IN  /\ \A j \in 1..Len(executionPreflight.slotSummaries) :
                     executionPreflight.slotSummaries[j].slotId = slot.slotId => j = k
               /\ slot.totalFiles = Cardinality(SlotResults(slot.slotId, PreflightStatuses))
               /\ slot.alreadyUploaded = Cardinality(SlotResults(slot.slotId, {"already_uploaded"}))
               /\ slot.pendingUpload = Cardinality(SlotResults(slot.slotId, {"pending_upload"}))
               /\ slot.missingUnreadable = Cardinality(SlotResults(slot.slotId, {"missing_unreadable"}))
               /\ slot.alreadyUploaded + slot.pendingUpload + slot.missingUnreadable = slot.totalFiles
               /\ slot.status =
                     IF SlotResults(slot.slotId, {"missing_unreadable"}) # {} THEN "blocked"
                     ELSE IF SlotResults(slot.slotId, {"pending_upload"}) = {} THEN "complete"
                     ELSE "partial"

\* one preflight summarised a blocked slot without pending item next to a slot of
\* another status
C12_Witness ==
  /\ executionPreflight.ran
  /\ \E k1, k2 \in 1..Len(executionPreflight.slotSummaries) :
        /\ executionPreflight.slotSummaries[k1].status = "blocked"
        /\ executionPreflight.slotSummaries[k1].pendingUpload = 0
        /\ executionPreflight.slotSummaries[k2].status \in {"complete", "partial"}

\* the source rows of the project with the sha256, as ledger positions
EntriesFor(sha256) ==
  {k \in 1..Len(ledger) :
     ledger[k].project_id = Project /\ ledger[k].is_source_file /\ ledger[k].sha256 = sha256}

C14_Idempotent ==
  [][frames'[1].resubmitted =>
        /\ ledger' = ledger
        /\ dest' = dest
        /\ slotSeq' = slotSeq
        /\ \A i \in 1..Len(frames'[1].results) :
              \/ frames'[1].results[i] = "skipped"
              \/ frames'[1].results[i] = "failed" /\ i = frames'[1].failedItem /\ i = Len(frames'[1].results)
        /\ (frames'[1].pc = "returned" /\ frames'[1].success) =>
              /\ Len(frames'[1].results) = Len(frames'[1].items)
              /\ frames'[1].skippedCount = Len(frames'[1].items)
              /\ frames'[1].uploadedCount = 0]_vars

\* the batch of two slots that a first run uploaded was submitted again and every
\* item came back skipped
C14_Witness ==
  /\ frames[1].resubmitted
  /\ frames[1].pc = "returned"
  /\ frames[1].success
  /\ Len(frames[1].items) >= 2
  /\ \E i, j \in 1..Len(frames[1].items) : frames[1].items[i].slotId # frames[1].items[j].slotId
  /\ \A i \in 1..Len(frames[1].items) : frames[1].results[i] = "skipped"
  /\ \E k \in 1..Len(ledger) : ledger[k].by = 1

\* every planned item has a ledger entry, the last preflight found nothing pending
\* and summarised every slot of the plan as complete
AllComplete ==
  /\ \A i \in 1..Len(executionPlan) : EntriesFor(executionPlan[i].sha256) # {}
  /\ executionPreflight.ran
  /\ SlotResults("s1", {"pending_upload"}) \cup SlotResults("s2", {"pending_upload"}) = {}
  /\ {executionPreflight.slotSummaries[k].slotId : k \in 1..Len(executionPreflight.slotSummaries)}
        = {executionPlan[i].slotId : i \in 1..Len(executionPlan)}
  /\ \A k \in 1..Len(executionPreflight.slotSummaries) :
        executionPreflight.slotSummaries[k].status = "complete"

\* a source row of the project for a planned sha256 that is not completed keeps
\* the plan from completing in every state, however many runs follow: no run
\* inserts a row for that sha256 and no run changes the row
Unfinished(sha256) ==
  /\ \E i \in 1..Len(executionPlan) : executionPlan[i].sha256 = sha256
  /\ EntriesFor(sha256) # {}
  /\ \A k \in EntriesFor(sha256) : ledger[k].upload_stage # "completed"
NeverCompletes ==
  /\ \A sha256 \in Shas : Unfinished(sha256) => ~AllComplete
  /\ [][\A sha256 \in Shas : Unfinished(sha256) => Unfinished(sha256)']_vars

TraversalPoints == {"readdir", "stat", "hash"}
KindOf(tree, file) == Entries(tree, file[1])[file[2]]
SubDirs(tree) == {i \in 1..Len(tree.root) : tree.root[i] = "dir"}
\* the regular files of a tree
EligibleFiles(tree) ==
  {<<0, i>> : i \in {i \in 1..Len(tree.root) : tree.root[i] = "file"}}
    \cup {<<d, k>> : d \in SubDirs(tree), k \in {k \in 1..Len(tree.sub) : tree.sub[k] = "file"}}
Listed(job) == {job.files[k] : k \in 1..Len(job.files)}

\* C16: a scan whose cancel request landed on a point of the traversal returns
\* success=false with the cancellation error and an empty file list.
C16_CancelledScanReportsCancel ==
  (scanRuns[1].pc = "returned" /\ scanRuns[1].cancelledAt \in TraversalPoints)
    => /\ ~scanRuns[1].success
       /\ scanRuns[1].error = "Scan cancelled by user"
       /\ scanRuns[1].files = <<>>

\* C17: once the cancel flag of a traversing scan is set, the next step of that
\* scan is its last: it starts no directory read and no file hash and the scan
\* returns.
C17_CancelStopsWork ==
  [][(/\ scanRuns[1].cancelled
       /\ scanRuns[1].pc \notin {"idle", "returned"}
       /\ scanRuns'[1] # scanRuns[1])
       => /\ scanRuns'[1].pc = "hash" => scanRuns[1].pc = "hash"
          /\ scanRuns'[1].pc = "readdir" => scanRuns[1].pc = "readdir"
          /\ Len(scanRuns'[1].collector) <= Len(scanRuns[1].collector) + 1
          /\ scanRuns[1].pc \in TraversalPoints =>
                scanRuns'[1].pc = "returned" /\ ~scanRuns'[1].success]_vars
C17_Witness ==
  /\ scanRuns[1].pc = "returned"
  /\ scanRuns[1].cancelledAt = "hash"
  /\ scanRuns[1].error = "Scan cancelled by user"
  /\ Len(scanRuns[1].collector) < Cardinality(EligibleFiles(scanRuns[1].tree))

\* C18: a scan that met stat or hash failures only returns success and lists
\* every regular file of the tree except the failing ones.
C18_IoErrorSkipsFile ==
  (/\ scanRuns[1].pc = "returned"
   /\ ~scanRuns[1].cancelled
   /\ scanRuns[1].unreadable = {}
   /\ scanRuns[1].ioFailed # {})
    => /\ scanRuns[1].success
       /\ Listed(scanRuns[1]) = EligibleFiles(scanRuns[1].tree) \ scanRuns[1].ioFailed

\* C19: the scan lists no symbolic link and descends into none, no directory is
\* on the traversal stack twice, and every scan that started returns.
NoLinkFollowed ==
  /\ \A k \in 1..Len(scanRuns[1].collector) : KindOf(scanRuns[1].tree, scanRuns[1].collector[k]) = "file"
  /\ \A k \in 1..Len(scanRuns[1].stack) :
        IF k = 1 THEN scanRuns[1].stack[k].dir = 0
        ELSE /\ KindOf(scanRuns[1].tree, <<scanRuns[1].stack[k - 1].dir, scanRuns[1].stack[k - 1].idx>>) = "dir"
             /\ \A i \in 1..(k - 1) : scanRuns[1].stack[i].dir # scanRuns[1].stack[k].dir
C19_SymlinksNotFollowed ==
  /\ []NoLinkFollowed
  /\ (scanRuns[1].pc \notin {"idle", "returned"}) ~> (scanRuns[1].pc = "returned")
C19_Witness ==
  /\ scanRuns[1].pc = "returned"
  /\ scanRuns[1].success
  /\ \E i \in 1..Len(scanRuns[1].tree.root) : scanRuns[1].tree.root[i] = "linkdir"
  /\ \E i \in 1..Len(scanRuns[1].tree.sub) : scanRuns[1].tree.sub[i] = "linkdir"
  /\ scanRuns[1].files # <<>>

\* ------------------------------------------------------ rename plan claims
SlotItems(slot) == SelectSeq(mappingPlan, LAMBDA item : item.slotId = slot)
Assigned(slot) == {i \in 1..Len(scan) : scan[i].slot = slot}

\* C20: the rename plan holds each slot's assigned files once, in relativePath
\* ascending order with the sequence numbers 1..N, and it is the plan any other
\* enumeration order of the same files gives.
C20_RenamePlanOrder ==
  /\ \A slot \in Slots :
        /\ Len(SlotItems(slot)) = Cardinality(Assigned(slot))
        /\ {SlotItems(slot)[k].sourcePath : k \in 1..Len(SlotItems(slot))} = Assigned(slot)
        /\ \A k \in 1..Len(SlotItems(slot)) : SlotItems(slot)[k].plannedSequence = k
        /\ \A k, l \in 1..Len(SlotItems(slot)) :
              k < l => localeCompare(planListing.key, SlotItems(slot)[k].sourcePath, SlotItems(slot)[l].sourcePath) <= 0
  /\ \A order \in Orders(Len(scan)) :
        mappingPlan = mappingPlanOf(scan, [planListing EXCEPT !.order = order], slotNamingOverrides)

\* ------------------------------------------------------- validation claims
PlanIndex == 1..Len(mappingPlan)
SameFilename(i) == {j \in PlanIndex : mappingPlan[j].plannedFilename = mappingPlan[i].plannedFilename}
Collisions == renameCollisions(mappingPlan)

\* C22: validation lists a planned filename as a rename collision exactly when
\* two or more items of the plan have it, in one slot or in several, once, and
\* with the source paths of all those items.
C22_CollisionsExact ==
  /\ \A i \in PlanIndex :
        Cardinality(SameFilename(i)) >= 2
          <=> \E k \in 1..Len(Collisions) : Collisions[k].key = mappingPlan[i].plannedFilename
  /\ \A k \in 1..Len(Collisions) :
        /\ \A n \in 1..Len(Collisions) : Collisions[n].key = Collisions[k].key => n = k
        /\ Len(Collisions[k].values)
             = Cardinality({j \in PlanIndex : mappingPlan[j].plannedFilename = Collisions[k].key})
        /\ {Collisions[k].values[n] : n \in 1..Len(Collisions[k].values)}
             = {mappingPlan[j].oldRelativePath : j \in {j \in PlanIndex : mappingPlan[j].plannedFilename = Collisions[k].key}}
C22_Witness ==
  /\ Len(Collisions) = 1
  /\ \E i, j \in PlanIndex :
        /\ mappingPlan[i].slotId # mappingPlan[j].slotId
        /\ mappingPlan[i].plannedFilename = mappingPlan[j].plannedFilename
  /\ slotNamingOverrides[SlotOrder[2]].prefix = <<" ", "P", " ", " ", "A", "?">>
  /\ slotNamingOverrides[SlotOrder[1]].prefix = <<>>

C23_ValidationBlocks ==
  [][runs' = runs + 1 => renameCollisions(mappingPlan) = <<>> /\ invalidNames(mappingPlan) = <<>>]_vars

\* ------------------------------------------------------ readiness claims
Duplicates == duplicateHashes(scan, planListing)
Planned == {i \in 1..Len(scan) : scan[i].slot \in Slots}
ReadyToExecute ==
  /\ executionValidation = "ready"
  /\ executionPlan # <<>>
  /\ ~uploadRunning
  /\ executionPreflight.ran
  /\ missingUnreadableCount(executionPreflight) = 0
  /\ runs = 0

\* C24: duplicateHashes lists a sha256 exactly when two or more planned files have
\* it, once and with the paths of all of them, and execution stays possible: with
\* a clean dry run and preflight the executor can be invoked whatever is listed.
C24_DuplicatesAdvisory ==
  /\ \A i \in Planned :
        Cardinality({j \in Planned : scan[j].sha = scan[i].sha}) >= 2
          <=> \E k \in 1..Len(Duplicates) : Duplicates[k].key = scan[i].sha
  /\ \A k \in 1..Len(Duplicates) :
        /\ \A n \in 1..Len(Duplicates) : Duplicates[n].key = Duplicates[k].key => n = k
        /\ Len(Duplicates[k].values) = Cardinality({j \in Planned : scan[j].sha = Duplicates[k].key})
        /\ {Duplicates[k].values[n] : n \in 1..Len(Duplicates[k].values)}
             = {j \in Planned : scan[j].sha = Duplicates[k].key}
  /\ ReadyToExecute => ENABLED handleExecuteUpload(1)
C24_Witness ==
  /\ Duplicates # <<>>
  /\ uploadRunning
  /\ runs = 1
  /\ Len(frames[1].items) >= 2
  /\ \E i, j \in 1..Len(frames[1].items) : i # j /\ frames[1].items[i].sha256 = frames[1].items[j].sha256
  /\ \E i, j \in Planned : i # j /\ scan[i].sha = scan[j].sha /\ scan[i].slot = scan[j].slot

\* C26: while executionReady is set, the last dry run that settled probed every
\* item of the current plan and found no error, and the executor is invoked only with
\* executionReady set and a preflight without missing_unreadable items.
Probed(items) == {<<items[i].sourcePath, items[i].sizeBytes>> : i \in 1..Len(items)}
C26_ReadyAfterCleanDryRun ==
  /\ [](executionValidation = "ready"
          => /\ Probed(executionPlan) \subseteq Probed(executionRunning.items)
             /\ executionRunning.errors = {})
  /\ [][runs' = runs + 1
          => /\ executionValidation = "ready"
             /\ executionPreflight.ran
             /\ missingUnreadableCount(executionPreflight) = 0]_vars

\* C25: the dry-run probe answers one result per item in the order of the items;
\* a result is ok exactly when stat found a regular file of non-zero size equal to
\* the expected size and the read stream opened; otherwise it carries exactly one
\* error type: missing for not found, permission for access denied, zero_byte for a
\* regular file of size 0 whatever the expected size, hash_mismatch for another size
\* than expected, unreadable for everything else.
FailureOf(item, observed) ==
  IF observed.stats.code # "ok" THEN observed.stats.code
  ELSE IF opens(item, observed.stats) /\ observed.opened # "ok" THEN observed.opened
  ELSE "ok"
C25_ProbeClassification ==
  /\ Len(dryRunStream.results) <= Len(dryRunStream.items)
  /\ dryRunStream.pc = "returned" => Len(dryRunStream.results) = Len(dryRunStream.items)
  /\ \A i \in 1..Len(dryRunStream.results) :
        LET item == dryRunStream.items[i]
            result == dryRunStream.results[i]
            stats == dryRunStream.seen[i].stats
            failure == FailureOf(item, dryRunStream.seen[i])
            regular == stats.code = "ok" /\ stats.isFile
        IN  /\ result.sourcePath = item.sourcePath
            /\ result.expectedSizeBytes = item.expectedSizeBytes
            /\ result.ok <=> /\ regular
                             /\ stats.size # 0
                             /\ stats.size = item.expectedSizeBytes
                             /\ dryRunStream.seen[i].opened = "ok"
            /\ result.ok <=> result.errorType = "null"
            /\ result.errorType \in {"null", "missing", "permission", "zero_byte", "hash_mismatch", "unreadable"}
            /\ result.errorType = "missing" <=> failure = "ENOENT"
            /\ result.errorType = "permission" <=> failure \in {"EACCES", "EPERM"}
            /\ result.errorType = "zero_byte" <=> regular /\ stats.size = 0
            /\ result.errorType = "hash_mismatch"
                  <=> regular /\ stats.size # 0 /\ stats.size # item.expectedSizeBytes

\* the handler returned an ok result followed by a zero_byte result for an item
\* expected to have another size
C25_Witness ==
  /\ dryRunStream.pc = "returned"
  /\ Len(dryRunStream.results) = 2
  /\ dryRunStream.results[1].ok
  /\ dryRunStream.results[2].errorType = "zero_byte"
  /\ dryRunStream.results[2].expectedSizeBytes # 0
  /\ dryRunStream.items[1].sourcePath # dryRunStream.items[2].sourcePath

\* the destination file of a ledger entry: the file under the drive root at the path
\* the entry records after the scheme
DestinationFile(row) == IF row.file_path.path \in DOMAIN dest THEN dest[row.file_path.path] ELSE NoFile
FilenameMatches(row) == row.final_filename \in {Null, basename(row.file_path.path)}
SizeMatchesRow(row) == row.file_size \in {Null, DestinationFile(row).size}
Verifies == verificationSummary'.ran /\ verificationSummary' # verificationSummary

\* C27: a verification counts an entry valid exactly when its destination file exists
\* and has the recorded filename and size, reports an entry whose file is gone as
\* exists = false, and checked = valid + invalid = the number of entries.
C27_VerificationCounts ==
  [][Verifies =>
       LET summary == verificationSummary'
           uploads == existingUploadRows(ledger, Project)
           Valid == {i \in 1..Len(uploads) :
                       /\ DestinationFile(uploads[i]) # NoFile
                       /\ FilenameMatches(uploads[i])
                       /\ SizeMatchesRow(uploads[i])}
       IN  /\ summary.checked = Len(uploads)
           /\ Len(summary.details) = Len(uploads)
           /\ summary.checked = summary.valid + summary.invalid
           /\ summary.valid = Cardinality(Valid)
           /\ \A i \in 1..Len(uploads) :
                 /\ DestinationFile(uploads[i]) = NoFile => ~summary.details[i].exists
                 /\ i \in Valid <=> /\ summary.details[i].exists
                                    /\ summary.details[i].filenameMatches
                                    /\ summary.details[i].sizeMatches]_vars

\* C28: an entry the executor inserted, whose destination file still is the file
\* the executor wrote, is verified with exists, filenameMatches and sizeMatches true.
C28_ExecuteVerifyRoundTrip ==
  [][Verifies =>
       LET uploads == existingUploadRows(ledger, Project)
       IN  \A i \in 1..Len(uploads) :
             (/\ uploads[i].by \in Runs
              /\ DestinationFile(uploads[i]) = [sha256 |-> uploads[i].sha256, size |-> uploads[i].file_size])
             => /\ verificationSummary'.details[i].localPath = uploads[i].file_path.path
                /\ verificationSummary'.details[i].exists
                /\ verificationSummary'.details[i].filenameMatches
                /\ verificationSummary'.details[i].sizeMatches]_vars

\* C29: the executor handles one item at a time in the order given: while an item
\* is between its dedup check and its insert, every item before it has its outcome
\* and no later item has a ledger row or an outcome; the position only moves to the
\* next item; and the results returned are the outcomes of the first items of the
\* input, all of them when nothing failed and those up to the failed one otherwise.
InLoop == {"exists", "upload", "stat", "insert"}
C29_StrictlySerial ==
  /\ [](LET f == frames[1]
        IN  /\ f.pc \in InLoop =>
                 /\ f.idx \in 1..Len(f.items)
                 /\ Len(f.results) = f.idx - 1
                 /\ f.failedItem = 0
            /\ Len(f.results) <= Len(f.items)
            /\ \A i \in 1..Len(f.items) :
                  InsertedFor(1, i) # {} <=> i <= Len(f.results) /\ f.results[i] = "success"
            /\ \A i \in 1..Len(f.results) :
                  f.results[i] = "failed" <=> i = f.failedItem /\ i = Len(f.results)
            /\ f.pc = "returned" =>
                  /\ f.success <=> f.failedItem = 0
                  /\ f.success => Len(f.results) = Len(f.items)
                  /\ ~f.success => Len(f.results) = f.failedItem)
  /\ [][(frames[1].pc \in InLoop /\ frames'[1].pc \in InLoop)
         => /\ frames'[1].idx \in {frames[1].idx, frames[1].idx + 1}
            /\ frames'[1].idx = frames[1].idx + 1 => Len(frames'[1].results) = Len(frames[1].results) + 1
            /\ frames'[1].idx = frames[1].idx => frames'[1].results = frames[1].results]_vars

\* a run over three items returned after its second item failed, the first item
\* uploaded
C29_Witness ==
  /\ frames[1].pc = "returned"
  /\ Len(frames[1].items) = 3
  /\ frames[1].results = <<"success", "failed">>

\* C30: the dedup re-check is the only check before the insert: an instance that
\* passed it and copied its item can insert the completed row whatever the other
\* instance inserted in the meantime, so two instances can both insert a completed
\* entry for one sha256.
CompletedBy(r, sha256) ==
  {k \in 1..Len(ledger) : /\ ledger[k].by = r
                          /\ ledger[k].project_id = Project
                          /\ ledger[k].sha256 = sha256
                          /\ ledger[k].upload_stage = "completed"}
C30_RecheckLeavesRace ==
  \A r \in Runs :
     frames[r].pc = "insert" =>
        ENABLED (/\ Insert(r)
                 /\ ledger' = Append(ledger, LedgerRow(frames[r].items[frames[r].idx], r))
                 /\ frames'[r].results = Append(frames[r].results, "success"))

\* both instances passed the re-check for one sha256 and both inserted a completed
\* entry for it; each reported its item uploaded
C30_Witness ==
  \E sha256 \in Shas :
     /\ \A r \in Runs : CompletedBy(r, sha256) # {} /\ frames[r].pc = "returned" /\ frames[r].success
     /\ \E i \in 1..Len(frames[1].results), j \in 1..Len(frames[2].results) :
           /\ frames[1].items[i].sha256 = sha256 /\ frames[1].results[i] = "success"
           /\ frames[2].items[j].sha256 = sha256 /\ frames[2].results[j] = "success"

\* C32: when the re-check of an item answers and the ledger holds a row of the
\* project with the item's sha256, the item is skipped: the destination and the
\* ledger stay as they are, the outcome is 'skipped', the slot's succeeded count
\* grows by one, and the run goes on with the next item (or finalizes after the
\* last); an item whose sha256 is not in the ledger is never skipped.
InLedger(item) ==
  \E k \in 1..Len(ledger) : ledger[k].project_id = item.projectId /\ ledger[k].sha256 = item.sha256
C32_SkipLeavesNoTrace ==
  [][(frames[1].pc = "exists" /\ frames'[1] # frames[1] /\ frames'[1].failedItem = 0)
       => LET f == frames[1]
              item == f.items[f.idx]
          IN  IF InLedger(item)
              THEN /\ frames'[1].results = Append(f.results, "skipped")
                   /\ ledger' = ledger
                   /\ dest' = dest
                   /\ slotSeq' = slotSeq \/ f.idx = Len(f.items)
                   /\ frames'[1].skippedCount = f.skippedCount + 1
                   /\ frames'[1].uploadedCount = f.uploadedCount
                   /\ frames'[1].slotSucceeded = [f.slotSucceeded EXCEPT ![item.slotId] = @ + 1]
                   /\ f.idx < Len(f.items) => frames'[1].pc = "exists" /\ frames'[1].idx = f.idx + 1
                   /\ f.idx = Len(f.items) => frames'[1].pc \in Finalizing \cup Settled
              ELSE /\ frames'[1].pc = "upload"
                   /\ frames'[1].results = f.results]_vars

\* a run skipped an item and went on to upload a later one
C32_Witness ==
  \E i \in 1..Len(frames[1].results) :
     /\ frames[1].results[i] = "skipped"
     /\ i < Len(frames[1].results)
     /\ frames[1].results[i + 1] = "success"

\* C36: in every result the executor returns, the three counts add up to the number
\* of result rows and each equals the number of rows of its status, failedCount is
\* 0 or 1, success is true exactly when failedCount is 0, and after a failure the
\* failed item is the last result row.
C36_CountsAddUp ==
  LET f == frames[1]
  IN  f.pc = "returned" =>
        /\ f.uploadedCount + f.skippedCount + f.failedCount = Len(f.results)
        /\ f.uploadedCount = Cardinality(RowsWith(f, {"success"}))
        /\ f.skippedCount = Cardinality(RowsWith(f, {"skipped"}))
        /\ f.failedCount = Cardinality(RowsWith(f, {"failed"}))
        /\ f.failedCount \in {0, 1}
        /\ f.success <=> f.failedCount = 0
        /\ ~f.success => f.results[Len(f.results)] = "failed" /\ f.failedItem = Len(f.results)

\* a run returned a failure after one uploaded and one skipped item
C36_Witness ==
  /\ frames[1].pc = "returned"
  /\ ~frames[1].success
  /\ frames[1].uploadedCount = 1
  /\ frames[1].skippedCount = 1
  /\ frames[1].failedCount = 1

\* C35: when a run has returned without failure, every slot for which the run
\* inserted an entry has a persisted counter at least as large as the largest
\* sequence number of the ledger entries of that slot; and the counter of a slot
\* changes only in a run that inserted an entry for that slot.
InsertedInRun(r, slot) ==
  {k \in (frames[r].startLen + 1)..Len(ledger) : ledger[k].by = r /\ ledger[k].slot_id = slot}
SlotSequences(slot) ==
  {ledger[k].sequence_number : k \in {j \in 1..Len(ledger) : ledger[j].slot_id = slot}}
C35_CounterCoversLedger ==
  /\ [](\A slot \in Slots :
          (frames[1].pc = "returned" /\ frames[1].success /\ InsertedInRun(1, slot) # {})
          => slotSeq[slot] >= MaxOf(SlotSequences(slot)))
  /\ [][\A slot \in Slots :
          slotSeq'[slot] # slotSeq[slot] => InsertedInRun(1, slot) # {}]_vars

\* C33: no two ledger entries of one slot share a sequence number or a final path,
\* and the executor never writes a destination file that a ledger entry records
\* for another sha256.
ExecutorRows == {k \in 1..Len(ledger) : ledger[k].by \in Runs}
C33_NoReuseInSlot ==
  /\ [](\A j, k \in ExecutorRows :
          (j # k /\ ledger[j].slot_id = ledger[k].slot_id)
          => /\ ledger[j].sequence_number # ledger[k].sequence_number
             /\ ledger[j].file_path # ledger[k].file_path)
  /\ [][\A path \in DestPaths :
          dest'[path] # dest[path]
          => \A k \in ExecutorRows :
                ledger[k].file_path.path = path => ledger[k].sha256 = dest'[path].sha256]_vars

\* C34: with the ledger as the preflight read it, the executor's re-check skips
\* an item exactly when the preflight classified the item already_uploaded.
C34_PreflightAgreesWithExecutor ==
  [][(/\ frames[1].pc = "exists"
      /\ frames'[1] # frames[1]
      /\ frames'[1].failedItem = 0
      /\ executionPreflight.ran
      /\ executionPreflight.ledgerLen = Len(ledger))
       => LET f == frames[1]
              item == f.items[f.idx]
          IN  frames'[1].results = Append(f.results, "skipped")
                <=> \E i \in 1..Len(executionPreflight.fileResults) :
                       /\ executionPreflight.fileResults[i].sourcePath = item.sourcePath
                       /\ executionPreflight.fileResults[i].status = "already_uploaded"]_vars

\* C39: the executor is invoked with the items of the current plan that the stored
\* preflight classified pending_upload, the stored preflight and the dry run whose
\* validation is stored were computed for the current plan, and every change of
\* the plan clears the validation and the preflight.
PreflightOfPlan ==
  /\ Len(executionPreflight.fileResults) = Len(executionPlan)
  /\ \A i \in 1..Len(executionPlan) :
        /\ executionPreflight.fileResults[i].sourcePath = executionPlan[i].sourcePath
        /\ executionPreflight.fileResults[i].slotId = executionPlan[i].slotId
        /\ executionPreflight.fileResults[i].sha256 = executionPlan[i].sha256
C39_ExecutesCurrentPlan ==
  /\ [][runs' = runs + 1 =>
          /\ PreflightOfPlan
          /\ Probed(executionRunning.items) = Probed(executionPlan)
          /\ \A k \in 1..Len(frames'[1].items) :
                \E i \in 1..Len(executionPlan) :
                   /\ frames'[1].items[k] = executionPlan[i]
                   /\ executionPreflight.fileResults[i].status = "pending_upload"]_vars
  /\ [][executionPlan' # executionPlan =>
          executionValidation' = "none" /\ executionPreflight' = NoPreflight]_vars

\* C37: whenever a scan-folder call is in progress, activeScanControl names a
\* scan that is still running, so that cancel-scan-folder reaches a running scan
ScanInProgress(j) == scanRuns[j].pc \notin {"idle", "returned"}
C37_CancelReachesRunningScan ==
  (\E j \in ScanIds : ScanInProgress(j)) =>
     activeScanControl # 0 /\ ScanInProgress(activeScanControl)

\* C38: in the renderer at most one scan request is in flight, and the stored scan
\* result belongs to the most recently started scan
InFlight == {j \in ScanRequests : rendererScan.requests[j] = "inflight"}
LatestRequest == MaxOf({j \in ScanRequests : rendererScan.requests[j] # "none"})
C38_OneScanLatestResult ==
  /\ Cardinality(InFlight) <= 1
  /\ rendererScan.scanResult.request = LatestRequest

\* C31: the folder groups of the stored plan aggregate its files by
\* parentRelativePath: every file is counted in exactly one group, a group's
\* fileCount and totalBytes are the count and byte sum of its files, its type counts
\* sum to fileCount, and the groups' totals sum to the plan's totalFiles and
\* totalBytes; the renderer's own grouping of the files gives the same groups
StoredPlan == rendererScan.scanResult.plan
FilesOfGroup(plan, group) ==
  {i \in 1..Len(plan.files) : plan.files[i].parentRelativePath = group.relativePath}
RECURSIVE SumOver(_, _)
SumOver(S, f) ==
  IF S = {} THEN 0
  ELSE LET x == CHOOSE y \in S : TRUE IN f[x] + SumOver(S \ {x}, f)
C31_FolderGroupsAggregate ==
  LET plan == StoredPlan
      groups == plan.folderGroups
      count == [k \in 1..Len(groups) |-> groups[k].fileCount]
      bytes == [k \in 1..Len(groups) |-> groups[k].totalBytes]
  IN  /\ \A i \in 1..Len(plan.files) :
            Cardinality({k \in 1..Len(groups) :
                           groups[k].relativePath = plan.files[i].parentRelativePath}) = 1
      /\ \A k \in 1..Len(groups) :
            LET members == FilesOfGroup(plan, groups[k])
                size == [i \in members |-> plan.files[i].size]
                typeCount == groups[k].typeCounts
            IN  /\ groups[k].fileCount = Cardinality(members)
                /\ groups[k].totalBytes = SumOver(members, size)
                /\ SumOver(FileTypes, typeCount) = groups[k].fileCount
                /\ \A t \in FileTypes :
                      groups[k].typeCounts[t] =
                        Cardinality({i \in members : plan.files[i].fileType = t})
      /\ SumOver(1..Len(groups), count) = plan.totalFiles
      /\ SumOver(1..Len(groups), bytes) = plan.totalBytes
      /\ plan.totalFiles = Len(plan.files)
      /\ normalizedFolderGroups(plan.files) = groups
\* a plan with two groups, one of them holding two files of different types
C31_Witness ==
  /\ rendererScan.requests[1] = "settled"
  /\ rendererScan.scanResult.success
  /\ Len(StoredPlan.folderGroups) = 2
  /\ \E k \in 1..2 :
        /\ StoredPlan.folderGroups[k].fileCount = 2
        /\ StoredPlan.folderGroups[k].totalBytes = 3
        /\ StoredPlan.folderGroups[k].typeCounts["image"] = 1
        /\ StoredPlan.folderGroups[k].typeCounts["video"] = 1
====
